---------------------------- MODULE Spec2Model ----------------------------
(***************************************************************************)
(* A model of the JAZELLE stream readers and of the MiniDST converter.     *)
(*                                                                         *)
(* The reader stack is PhysicalRecordInputStream (stream/physical_stream)  *)
(* <- LogicalRecordInputStream (logical_stream) <- JazelleInputStream      *)
(* (jazelle_stream).  The physical layer modelled is the revision with the *)
(* rollover read and get_n_bytes, which is the one the driver calls.       *)
(*                                                                         *)
(* A stream object is the record                                           *)
(*   [pos, n_bytes, reclen, to_be_continued, err, hdrs]                    *)
(* pos is the offset of the underlying file object, err the exception that *)
(* ended the last call ("none" when it returned), and hdrs a history of    *)
(* the file offsets at which a physical header read began.                 *)
(* Every stream operation is an operator from (file, stream[, argument])   *)
(* to [st |-> the stream afterwards, val |-> the value returned].          *)
(***************************************************************************)
EXTENDS Integers, Sequences, FiniteSets, TLC

VARIABLES
    frags,   \* the fragments the input file was written from (history)
    recs,    \* the logical records the converter's input was written from
    file,    \* the bytes of the input file
    s,       \* the stream object
    op,      \* the operation that ran last
    preop,   \* the operation that ran before it
    arg,     \* the argument of the last operation
    from,    \* the file offset at which the last operation started
    data,    \* the bytes the last read returned; the rows main wrote
    pc,      \* where the program is
    drv,     \* the converter's local variables
    buffer   \* the DataBuffer a bank decoder reads from

vars == <<frags, recs, file, s, op, preop, arg, from, data, pc, drv, buffer>>

Min(a, b) == IF a < b THEN a ELSE b
Max(a, b) == IF a > b THEN a ELSE b

(***************************************************************************)
(* Bounds of the model.                                                    *)
(***************************************************************************)
MaxFrags == 4
MaxRead == 6
MaxRecs == 2

(***************************************************************************)
(* The underlying binary file object.                                      *)
(***************************************************************************)
\* f.read(n): at most n bytes from offset pos; a negative n reads to the end
FileRead(f, pos, n) ==
    IF n < 0 THEN SubSeq(f, pos + 1, Len(f))
    ELSE SubSeq(f, pos + 1, Min(pos + n, Len(f)))

\* little-endian unsigned 16 bit
U16(b) == b[1] + 256 * b[2]

NewStream ==
    [pos |-> 0, n_bytes |-> 0, reclen |-> 0, to_be_continued |-> FALSE,
     err |-> "none", hdrs |-> <<>>]

Raise(st, e) == [st |-> [st EXCEPT !.err = e], val |-> <<>>]

\* K(v), with v evaluated once
Bind(v, K(_)) == CHOOSE y \in {K(x) : x \in {v}} : TRUE

\* K(r) if the call that gave r returned, r if it raised
Try(r, K(_)) ==
    CHOOSE y \in {IF x.st.err # "none" THEN x ELSE K(x) : x \in {r}} : TRUE

(***************************************************************************)
(* PhysicalRecordInputStream                                               *)
(***************************************************************************)
\* a _read_short that leaves n_bytes alone
read_short_uncounted(f, st) ==
    LET d == FileRead(f, st.pos, 2)
        st1 == [st EXCEPT !.pos = @ + Len(d)]
    IN IF Len(d) < 2 THEN Raise(st1, "EOFError")
       ELSE [st |-> st1, val |-> U16(d)]

read_short_raw(f, st) ==
    LET d == FileRead(f, st.pos, 2)
        st1 == [st EXCEPT !.pos = @ + Len(d)]
    IN IF Len(d) < 2 THEN Raise(st1, "EOFError")
       ELSE [st |-> [st1 EXCEPT !.n_bytes = @ + 2], val |-> U16(d)]

\* a _read_header that does not reset n_bytes
read_header_unreset(f, st) ==
    Try(read_short_raw(f, [st EXCEPT !.hdrs = Append(@, st.pos)]),
        LAMBDA r1 :
            IF r1.val < 0 THEN Raise([r1.st EXCEPT !.reclen = r1.val], "EOFError")
            ELSE read_short_raw(f, [r1.st EXCEPT !.reclen = r1.val]))

Physical_read_header(f, st) ==
    Try(read_short_raw(f, [st EXCEPT !.n_bytes = 0,
                                     !.hdrs = Append(@, st.pos)]),
        LAMBDA r1 :
            IF r1.val < 0 THEN Raise([r1.st EXCEPT !.reclen = r1.val], "EOFError")
            ELSE read_short_raw(f, [r1.st EXCEPT !.reclen = r1.val]))

(***************************************************************************)
(* LogicalRecordInputStream                                                *)
(***************************************************************************)
\* the tests of the flags word gone wrong: the low byte only; the other bit
LowByteUnknownBits(lrcnt) == (lrcnt % 256) \div 4 # 0
ContinuedBitIsBit0(lrcnt) == lrcnt % 2 # 0

UnknownBits(lrcnt) == lrcnt \div 4 # 0            \* lrcnt & 0xFFFFFFFC != 0
ContinuedBit(lrcnt) == (lrcnt \div 2) % 2 # 0     \* (lrcnt & 2) != 0
ContinuesBit(lrcnt) == lrcnt % 2 # 0              \* (lrcnt & 1) != 0

Logical_read_header(f, st) ==
    Try(Physical_read_header(f, st), LAMBDA p :
    Try(read_short_raw(f, p.st), LAMBDA lrlen :
    Try(read_short_raw(f, lrlen.st), LAMBDA lrcnt :
        IF UnknownBits(lrcnt.val) THEN Raise(lrcnt.st, "IOSYNCH1")
        ELSE IF ContinuedBit(lrcnt.val) # lrcnt.st.to_be_continued
             THEN Raise(lrcnt.st, "IOSYNCH2")
        ELSE [st |-> [lrcnt.st EXCEPT !.to_be_continued = ContinuesBit(lrcnt.val)],
              val |-> <<>>])))

next_physical_record(f, st) ==
    LET remaining == st.reclen - st.n_bytes
        st1 == IF remaining > 0 THEN [st EXCEPT !.pos = @ + remaining] ELSE st
    IN Logical_read_header(f, st1)

\* a read that is not clamped to the fragment
Unclamped(size, remaining) == size

Clamp(size, remaining) == Min(size, remaining)

\* a turn of the loop of read without the rollover
read_turn_unrolled(f, st, size, result) ==
    Bind(FileRead(f, st.pos, Clamp(size, st.reclen - st.n_bytes)),
         LAMBDA d :
             IF Len(d) # Clamp(size, st.reclen - st.n_bytes)
             THEN Raise([st EXCEPT !.pos = @ + Len(d)], "EOFError")
             ELSE [st |-> [st EXCEPT !.pos = @ + Len(d), !.n_bytes = @ + Len(d)],
                   val |-> [size |-> size - Len(d), result |-> result \o d]])

\* lines 42-60: one turn of the loop of read, entered with size > 0; val is
\* the size still wanted and the bytes gathered
read_turn(f, st, size, result) ==
    Try(IF st.reclen - st.n_bytes = 0 THEN next_physical_record(f, st)
        ELSE [st |-> st, val |-> <<>>],
        LAMBDA r :
            Bind(FileRead(f, r.st.pos, Clamp(size, st.reclen - st.n_bytes)),
                 LAMBDA d :
                     IF Len(d) # Clamp(size, st.reclen - st.n_bytes)
                     THEN Raise([r.st EXCEPT !.pos = @ + Len(d)], "EOFError")
                     ELSE [st |-> [r.st EXCEPT !.pos = @ + Len(d),
                                               !.n_bytes = @ + Len(d)],
                           val |-> [size |-> size - Len(d),
                                    result |-> result \o d]]))

\* while size > 0: the turns of the loop, one after the other
RECURSIVE read_loop(_, _, _, _)
read_loop(f, st, size, result) ==
    IF ~(size > 0) THEN [st |-> st, val |-> result]
    ELSE Try(read_turn(f, st, size, result),
             LAMBDA t : read_loop(f, t.st, t.val.size, t.val.result))

read(f, st, size) == read_loop(f, st, size, <<>>)

\* a next_logical_record that does not skip the rest of the current record
next_record_unskipped(f, st) == next_physical_record(f, st)

RECURSIVE next_logical_record(_, _)
next_logical_record(f, st) ==
    IF st.to_be_continued
    THEN Try(next_physical_record(f, st), LAMBDA r : next_logical_record(f, r.st))
    ELSE next_physical_record(f, st)

get_n_bytes(st) == st.n_bytes

\* LogicalRecordInputStream(stream): the constructors read the first header
Logical_init(f) == Logical_read_header(f, NewStream)

(***************************************************************************)
(* JazelleInputStream                                                      *)
(***************************************************************************)
\* struct.unpack('<i', data): little-endian two's complement
S32(b) ==
    b[1] + 256 * b[2] + 65536 * b[3]
    + 16777216 * (IF b[4] >= 128 THEN b[4] - 256 ELSE b[4])

\* struct.unpack('<q', data), kept as <<bits 32-63 signed, bits 16-31, bits 0-15>>
S64(b) == <<S32(SubSeq(b, 5, 8)), U16(SubSeq(b, 3, 4)), U16(SubSeq(b, 1, 2))>>

Leq64(x, y) ==
    \/ x[1] < y[1]
    \/ x[1] = y[1] /\ x[2] < y[2]
    \/ x[1] = y[1] /\ x[2] = y[2] /\ x[3] <= y[3]

read_integer(f, st, size) ==
    Try(read(f, st, size), LAMBDA r :
        IF Len(r.val) # size THEN Raise(r.st, "EOFError")
        ELSE [r EXCEPT !.val = IF size = 4 THEN S32(r.val) ELSE S64(r.val)])

read_int(f, st) == read_integer(f, st, 4)

read_long(f, st) == read_integer(f, st, 8)

\* datetime.utcfromtimestamp takes the years 1 to 9999: the tick counts t with
\* -62135596800000 <= t // 10000 - JAVA_EPOCH_OFFSET <= 253402300799999
FirstTick == S64(<<160, 35, 165, 84, 113, 21, 221, 247>>)
LastTick == S64(<<159, 99, 220, 72, 231, 61, 167, 35>>)

\* Python integers are unbounded: one is kept as a sign and a magnitude of
\* Limbs digits to the base TicksPerMilli, least significant first
TicksPerMilli == 10000
ZeroMag == <<0, 0, 0, 0, 0, 0>>
Limbs == Len(ZeroMag)

RECURSIVE MulAddFrom(_, _, _, _)
MulAddFrom(m, k, c, i) ==
    IF i > Limbs THEN <<>>
    ELSE Bind(m[i] * k + c, LAMBDA v :
            <<v % TicksPerMilli>> \o MulAddFrom(m, k, v \div TicksPerMilli, i + 1))

\* m * k + c for 0 <= k, c <= 65536
MagMulAdd(m, k, c) == MulAddFrom(m, k, c, 1)

RECURSIVE AddFrom(_, _, _, _)
AddFrom(a, b, c, i) ==
    IF i > Limbs THEN <<>>
    ELSE Bind(a[i] + b[i] + c, LAMBDA v :
            <<v % TicksPerMilli>> \o AddFrom(a, b, v \div TicksPerMilli, i + 1))

MagAdd(a, b) == AddFrom(a, b, 0, 1)

RECURSIVE SubFrom(_, _, _, _)
SubFrom(a, b, c, i) ==
    IF i > Limbs THEN <<>>
    ELSE Bind(a[i] - b[i] + c, LAMBDA v :
            <<v % TicksPerMilli>> \o SubFrom(a, b, v \div TicksPerMilli, i + 1))

\* a - b for a >= b
MagSub(a, b) == SubFrom(a, b, 0, 1)

RECURSIVE LeqFrom(_, _, _)
LeqFrom(a, b, i) ==
    IF i = 0 THEN TRUE
    ELSE IF a[i] # b[i] THEN a[i] < b[i]
    ELSE LeqFrom(a, b, i - 1)

MagLeq(a, b) == LeqFrom(a, b, Limbs)

Z(neg, mag) == [neg |-> neg /\ mag # ZeroMag, mag |-> mag]

ZNeg(a) == Z(~a.neg, a.mag)

ZAdd(a, b) ==
    IF a.neg = b.neg THEN Z(a.neg, MagAdd(a.mag, b.mag))
    ELSE IF MagLeq(b.mag, a.mag) THEN Z(a.neg, MagSub(a.mag, b.mag))
    ELSE Z(b.neg, MagSub(b.mag, a.mag))

ZLeq(a, b) ==
    IF a.neg # b.neg THEN a.neg
    ELSE IF a.neg THEN MagLeq(b.mag, a.mag)
    ELSE MagLeq(a.mag, b.mag)

\* the integer that struct.unpack('<q', data) gives for the limbs of S64
ZOfS64(x) ==
    LET top == IF x[1] >= 0 THEN x[1] ELSE -(x[1] + 1)
        mid == IF x[1] >= 0 THEN x[2] ELSE 65535 - x[2]
        low == IF x[1] >= 0 THEN x[3] ELSE 65536 - x[3]
    IN  Bind(MagMulAdd(ZeroMag, 0, top), LAMBDA m1 :
        Bind(MagMulAdd(m1, 65536, mid), LAMBDA m2 :
        Bind(MagMulAdd(m2, 65536, low), LAMBDA m3 :
            Z(x[1] < 0, m3))))

\* value // 10000: the floor, toward minus infinity
ZFloorDiv(a) ==
    Bind([i \in 1..Limbs |-> IF i < Limbs THEN a.mag[i + 1] ELSE 0], LAMBDA q :
        IF a.neg /\ a.mag[1] # 0
        THEN Z(TRUE, MagMulAdd(q, 1, 1))
        ELSE Z(a.neg, q))

\* 3506716800730
JAVA_EPOCH_OFFSET == Z(FALSE, <<730, 1680, 5067, 3, 0, 0>>)

\* the milliseconds that read_date hands to datetime.utcfromtimestamp
utc_millis(ticks) ==
    Bind(ZOfS64(ticks), LAMBDA value :
    Bind(ZFloorDiv(value), LAMBDA millis :
        ZAdd(millis, ZNeg(JAVA_EPOCH_OFFSET))))

\* the datetime is kept as its milliseconds since 1970-01-01
read_date(f, st) ==
    Try(read_long(f, st), LAMBDA r :
        IF ~(Leq64(FirstTick, r.val) /\ Leq64(r.val, LastTick))
        THEN Raise(r.st, "ValueError: year out of range")
        ELSE [r EXCEPT !.val = utc_millis(r.val)])

\* a | b for a, b >= 0
RECURSIVE BitOr(_, _)
BitOr(a, b) ==
    IF a = 0 THEN b
    ELSE IF b = 0 THEN a
    ELSE (IF a % 2 = 1 \/ b % 2 = 1 THEN 1 ELSE 0) + 2 * BitOr(a \div 2, b \div 2)

\* the n bits of the two's complement of value from bit lo upwards
Bits(value, lo, n) == (value \div 2^lo) % 2^n

\* a conversion that rebiases the exponent by one
float_bits_rebias1(value) ==
    IF value = 0 THEN <<0, 0>>
    ELSE <<BitOr(BitOr(Bits(value, 15, 1) * 32768,
                       (Bits(value, 7, 8) * 128 - 128) % 65536),
                 Bits(value, 0, 7)),
           Bits(value, 16, 16)>>

\* the float of read_float for the word value, kept as the bit pattern that
\* struct.unpack('!f') decodes: <<bits 16-31, bits 0-15>> of float_bits. The
\* three operands of | are shifted left by 16 and masked to 32 bits, so bits
\* 16-31 are the | of the low 16 bits of sign_bit, exp_bits and value & 0x7f,
\* and bits 0-15 are (value & 0xffff0000) >> 16
float_bits(value) ==
    IF value = 0 THEN <<0, 0>>
    ELSE LET sign_bit == Bits(value, 15, 1) * 32768
             exp_bits == Bits(value, 7, 8) * 128 - 256
         IN  <<BitOr(BitOr(sign_bit, exp_bits % 65536), Bits(value, 0, 7)),
               Bits(value, 16, 16)>>

read_float(f, st) ==
    Try(read_int(f, st), LAMBDA r : [r EXCEPT !.val = float_bits(r.val)])

\* str.rstrip(): the characters str.isspace() holds of, among those decoded
Whitespace == {9, 10, 11, 12, 13, 28, 29, 30, 31, 32}

\* a strip of the trailing spaces only
RECURSIVE rstrip_spaces(_)
rstrip_spaces(str) ==
    IF str # <<>> /\ str[Len(str)] = 32
    THEN rstrip_spaces(SubSeq(str, 1, Len(str) - 1))
    ELSE str

RECURSIVE rstrip(_)
rstrip(str) ==
    IF str # <<>> /\ str[Len(str)] \in Whitespace
    THEN rstrip(SubSeq(str, 1, Len(str) - 1))
    ELSE str

\* bytes.decode('ascii', errors='replace'): U+FFFD for a byte above 127
decode(b) == [i \in 1..Len(b) |-> IF b[i] >= 128 THEN 65533 ELSE b[i]]

read_string(f, st, size) ==
    Try(read(f, st, size), LAMBDA r :
        IF Len(r.val) < size THEN Raise(r.st, "EOFError")
        ELSE [r EXCEPT !.val = rstrip(decode(r.val))])

JAZELLE == <<74, 65, 90, 69, 76, 76, 69>>
IJEVHD == <<73, 74, 69, 86, 72, 68>>
MINIDST == <<77, 73, 78, 73, 68, 83, 84>>

\* one typed read: "int", "float", "date" or "str8" / "str80"
read_field(f, st, kind) ==
    CASE kind = "int" -> read_int(f, st)
      [] kind = "float" -> read_float(f, st)
      [] kind = "date" -> read_date(f, st)
      [] kind = "str8" -> read_string(f, st, 8)
      [] kind = "str80" -> read_string(f, st, 80)

\* the reads of a dict display, in order: [st, val |-> the values read], or
\* the stream at the read that raised
RECURSIVE read_fields(_, _, _, _)
read_fields(f, st, kinds, acc) ==
    IF kinds = <<>> THEN [st |-> st, val |-> acc]
    ELSE Try(read_field(f, st, Head(kinds)), LAMBDA r :
             Bind([kinds |-> Tail(kinds), acc |-> Append(acc, r.val)],
                  LAMBDA n : read_fields(f, r.st, n.kinds, n.acc)))

TagMatches(tag) == tag = JAZELLE

\* JazelleInputStream(f): [st, val |-> <<ibmvax, created, modified, nmod, name>>]
Jazelle_init(f) ==
    Try(Logical_read_header(f, NewStream), LAMBDA h :
    Try(read_string(f, h.st, 8), LAMBDA tag :
        IF ~TagMatches(tag.val)
        THEN Raise(tag.st, "ValueError: Input is not in JAZELLE format!")
        ELSE read_fields(f, tag.st, <<"int", "date", "date", "int", "str80">>, <<>>)))

(***************************************************************************)
(* convert_minidst.main: the body of its "while True" loop, from the       *)
(* stream and the locals d before an iteration to those after it.  d.err   *)
(* is the exception the iteration raised ("none": it fell through to the   *)
(* next one); d.done_recs counts the iterations that fell through.         *)
(***************************************************************************)
None == <<>>

NewLocals ==
    [rec_no |-> 0, event_info |-> None, all_records |-> <<>>,
     all_phmtoc |-> <<>>, all_phpsum |-> <<>>, err |-> "none", done_recs |-> 0]

\* a record header of 124 bytes: three more words
RecordKinds124 ==
    <<"int", "int", "int", "int", "str8", "int", "int", "str8", "str8",
      "int", "int", "int", "int", "int", "int", "int", "int", "str8", "str8",
      "int", "int", "int", "int", "int", "int", "int">>

RecordKinds ==
    <<"int", "int", "int", "int", "str8", "int", "int", "str8", "str8",
      "int", "int", "int", "int", "int", "int", "int", "int", "str8", "str8",
      "int", "int", "int", "int">>

\* the record dict, of the values read in the order of RecordKinds
RecordOf(v) ==
    [recno |-> v[1], format |-> v[8], datrec |-> v[11], datsiz |-> v[13],
     tocoff1 |-> v[14], datoff |-> v[17], usrnam |-> v[19], usroff |-> v[20]]

EventKinds == <<"int", "int", "int", "date", "float", "int", "int">>

EventInfoOf(v) == [run |-> v[2], event |-> v[3], time |-> v[4]]

PhmtocKinds ==
    <<"float", "int", "int", "int", "int", "int", "int", "int", "int", "int",
      "int", "int", "int", "int", "int", "int", "int", "int">>

PhmtocOf(v) == [NMcPart |-> v[2], NPhPSum |-> v[3]]

PhpsumKinds ==
    <<"int", "float", "float", "float", "float", "float", "float", "float", "int">>

\* an exception leaves the try block: one main raises, or the stream's own
Raised(st, d, e) == [st |-> st, d |-> [d EXCEPT !.err = e]]
Thrown(r, d) == Raised(r.st, d, r.st.err)

\* K(r) if the stream call that gave r returned; if it raised, the exception
\* leaves the try block with the locals d
TryCall(r, d, K(_)) ==
    CHOOSE y \in {IF x.st.err # "none" THEN Thrown(x, d) ELSE K(x) : x \in {r}} :
        TRUE

\* K(r) if the step that gave r = [st, d] raised nothing, r otherwise
TryStep(r, K(_)) ==
    CHOOSE y \in {IF x.d.err # "none" THEN x ELSE K(x) : x \in {r}} : TRUE

\* for idx in range(n): the nine reads of a particle; val is the list of ids
RECURSIVE read_phpsum(_, _, _, _)
read_phpsum(f, st, n, ids) ==
    IF n <= 0 THEN [st |-> st, val |-> ids]
    ELSE Try(read_fields(f, st, PhpsumKinds, <<>>), LAMBDA r :
             Bind([n |-> n - 1, ids |-> Append(ids, r.val[1])],
                  LAMBDA m : read_phpsum(f, r.st, m.n, m.ids)))

\* lines 197-223: the PHMTOC row and the particle rows of the event
emit_event(d, phmtoc, ids) ==
    IF d.event_info = None THEN d
    ELSE [d EXCEPT
            !.all_phmtoc = Append(@, [rec |-> d.rec_no,
                                      run |-> d.event_info.run,
                                      event |-> d.event_info.event,
                                      time |-> d.event_info.time,
                                      NPhPSum |-> phmtoc.NPhPSum]),
            !.all_phpsum = @ \o [idx \in 1..Max(phmtoc.NPhPSum, 0) |->
                                   [rec |-> d.rec_no,
                                    run |-> d.event_info.run,
                                    event |-> d.event_info.event,
                                    time |-> d.event_info.time,
                                    particle_idx |-> idx - 1,
                                    id |-> ids[idx]]]]

\* an offset check that never fails
never_differs(st, record) == FALSE

usroff_differs(st, record) == get_n_bytes(st) # record.usroff
tocoff1_differs(st, record) == get_n_bytes(st) # record.tocoff1
datoff_differs(st, record) == get_n_bytes(st) # record.datoff

\* a read of the data that does not look at NMcPart
read_data_unasserted(f, st, d, phmtoc) ==
    TryCall(read(f, st, 20), d, LAMBDA mchead :
        TryCall(read_phpsum(f, mchead.st, phmtoc.NPhPSum, <<>>), d,
                LAMBDA ps : [st |-> ps.st, d |-> emit_event(d, phmtoc, ps.val)]))

\* lines 163-223, after the datoff check
read_data(f, st, d, phmtoc) ==
    TryCall(read(f, st, 20), d, LAMBDA mchead :
        IF phmtoc.NMcPart # 0 THEN Raised(mchead.st, d, "AssertionError")
        ELSE TryCall(read_phpsum(f, mchead.st, phmtoc.NPhPSum, <<>>), d,
                     LAMBDA ps : [st |-> ps.st, d |-> emit_event(d, phmtoc, ps.val)]))

\* lines 116-226: a record of format MINIDST
read_minidst(f, st, d, record) ==
    IF tocoff1_differs(st, record)
    THEN Raised(st, d, "ValueError: Inconsistent tocoff1")
    ELSE TryCall(read_fields(f, st, PhmtocKinds, <<>>), d, LAMBDA toc :
         TryCall(IF record.datrec > 0 THEN next_physical_record(f, toc.st)
                 ELSE [st |-> toc.st, val |-> <<>>], d, LAMBDA r :
             IF datoff_differs(r.st, record)
             THEN Raised(r.st, d, "ValueError: Inconsistent datoff")
             ELSE read_data(f, r.st, d, PhmtocOf(toc.val))))

\* an event_info that outlives its record
kept_event_info(previous) == previous

\* line 88: event_info is initialised for every record
initial_event_info(previous) == None

\* lines 87-114: the event information of a record named IJEVHD
read_event_info(f, st, d, record) ==
    Bind([d EXCEPT !.event_info = initial_event_info(@)], LAMBDA d0 :
        IF record.usrnam # IJEVHD THEN [st |-> st, d |-> d0]
        ELSE IF usroff_differs(st, record)
             THEN Raised(st, d0, "ValueError: Inconsistent usroff")
        ELSE TryCall(read_fields(f, st, EventKinds, <<>>), d0, LAMBDA ev :
                 [st |-> ev.st,
                  d |-> [d0 EXCEPT
                           !.event_info = EventInfoOf(ev.val),
                           !.all_records =
                              Append(@, [rec |-> d.rec_no,
                                         recno |-> record.recno,
                                         run |-> ev.val[2],
                                         event |-> ev.val[3],
                                         time |-> ev.val[4]])]]))

\* lines 55-226: the try block
loop_body(f, st, d) ==
    TryCall(next_logical_record(f, st), d, LAMBDA nlr :
    Bind([d EXCEPT !.rec_no = @ + 1], LAMBDA d1 :
    TryCall(read_fields(f, nlr.st, RecordKinds, <<>>), d1, LAMBDA hd :
    Bind(RecordOf(hd.val), LAMBDA record :
    TryStep(read_event_info(f, hd.st, d1, record), LAMBDA ev :
    TryStep(IF record.format = MINIDST THEN read_minidst(f, ev.st, ev.d, record)
            ELSE ev,
            LAMBDA r : [r EXCEPT !.d.done_recs = @ + 1]))))))

\* lines 228-240: every exception ends the loop
ends_loop(e) == e # "none"

\* DataFrame.merge(right, on=['run', 'event'], how='left') for one left row:
\* a row for every right row of the same run and event, in their order, or
\* one row without the right columns
SameEvent(rows, p) == SelectSeq(rows, LAMBDA x : x.run = p.run /\ x.event = p.event)

MergeLeft(p, rows, missing) ==
    IF SameEvent(rows, p) = <<>> THEN <<missing>> ELSE SameEvent(rows, p)

\* the rows of df_combined for the particle row p: p with the columns of its
\* PHMTOC rows, and each of these with the columns of its record rows
RECURSIVE Flatten(_)
Flatten(ss) == IF ss = <<>> THEN <<>> ELSE Head(ss) \o Flatten(Tail(ss))

CombinedOf(d, p) ==
    LET tocs == MergeLeft(p, d.all_phmtoc, [NPhPSum |-> None])
        rcs == MergeLeft(p, d.all_records, [recno |-> None])
    IN Flatten([i \in 1..Len(tocs) |->
                   [j \in 1..Len(rcs) |->
                       [run |-> p.run, event |-> p.event, time |-> p.time,
                        particle_idx |-> p.particle_idx, id |-> p.id,
                        NPhPSum |-> tocs[i].NPhPSum, recno |-> rcs[j].recno]]])

\* lines 242-308: the data frames are merged on run and event and written;
\* with no particle row there are no such columns and the merge raises
write_output(d) ==
    IF d.all_phpsum = <<>> THEN [err |-> "KeyError", rows |-> <<>>]
    ELSE [err |-> "none",
          rows |-> Flatten([k \in 1..Len(d.all_phpsum) |->
                               CombinedOf(d, d.all_phpsum[k])])]

(***************************************************************************)
(* Input files of the reader specification: up to MaxFrags fragments, each *)
(* an 8-byte header (record length, reserved word, logical length, flags)  *)
(* and a payload whose bytes are PayBase + their rank among the payload    *)
(* bytes of the file, so that a payload byte names its place.  A file is   *)
(* well formed, or has one fault: a flags word, a record length, or a cut. *)
(***************************************************************************)
PayLens == {0, 2}
PayBase == 100

Flags(cont, prev) == (IF cont THEN 1 ELSE 0) + (IF prev THEN 2 ELSE 0)

\* a shape: the payload length of each fragment and whether the logical
\* record goes on after it; the last fragment ends its logical record, and
\* at most one fragment has no payload
Shapes ==
    UNION {{sh \in [1..n -> [pay : PayLens, cont : BOOLEAN]] :
               /\ ~sh[n].cont
               /\ Cardinality({i \in 1..n : sh[i].pay = 0}) <= 1} :
              n \in 1..MaxFrags}

FragsOf(sh) ==
    [i \in 1..Len(sh) |->
        [len |-> 8 + sh[i].pay, pay |-> sh[i].pay,
         fl |-> Flags(sh[i].cont, i > 1 /\ sh[i - 1].cont)]]

FlipBit0(fl) == IF fl % 2 = 1 THEN fl - 1 ELSE fl + 1
FlipBit1(fl) == IF (fl \div 2) % 2 = 1 THEN fl - 2 ELSE fl + 2

\* the flags words and record lengths written in place of the right ones
BadFlags(fl) == {4, 256, FlipBit0(fl), FlipBit1(fl)}
BadLens(len) == {4, len - 1, len + 1}

RECURSIVE PayBefore(_, _)
PayBefore(fs, i) == IF i <= 1 THEN 0 ELSE PayBefore(fs, i - 1) + fs[i - 1].pay

\* the file offset at which fragment i was written
Start(fs, i) == 8 * (i - 1) + PayBefore(fs, i)

Payload(fs, i) == [k \in 1..fs[i].pay |-> PayBase + PayBefore(fs, i) + k]

FragBytes(fs, i) ==
    <<fs[i].len % 256, fs[i].len \div 256, 0, 0,
      fs[i].pay % 256, fs[i].pay \div 256,
      fs[i].fl % 256, fs[i].fl \div 256>> \o Payload(fs, i)

RECURSIVE Encode(_, _)
Encode(fs, i) == IF i > Len(fs) THEN <<>> ELSE FragBytes(fs, i) \o Encode(fs, i + 1)

FileLen(fs) == Start(fs, Len(fs)) + 8 + fs[Len(fs)].pay

\* the lengths a file may be cut to: inside the header or the payload of its
\* last fragment (the fragments before it are whole)
Cuts(fs) ==
    LET b == Start(fs, Len(fs))
    IN {b + 3} \cup {b + 8 + k : k \in 0..(fs[Len(fs)].pay - 1)}

Written(fs) == <<fs, Encode(fs, 1)>>

\* <<fragments, file>>: a well-formed file, or one with a single fault
Inputs(fs) ==
    {Written(fs)}
    \cup UNION {{Written([fs EXCEPT ![i].fl = v]) : v \in BadFlags(fs[i].fl)} :
                   i \in 1..Len(fs)}
    \cup UNION {{Written([fs EXCEPT ![i].len = v]) : v \in BadLens(fs[i].len)} :
                   i \in 1..Len(fs)}
    \cup {<<fs, SubSeq(Encode(fs, 1), 1, c)>> : c \in Cuts(fs)}

AllInputs == UNION {Inputs(FragsOf(sh)) : sh \in Shapes}

(***************************************************************************)
(* The reader specification: a client that constructs a                    *)
(* LogicalRecordInputStream and calls read, next_physical_record and       *)
(* next_logical_record in any order until a call raises.                   *)
(***************************************************************************)
Init ==
    /\ \E in \in AllInputs : frags = in[1] /\ file = in[2]
    /\ s = Logical_init(file).st
    /\ op = "init"
    /\ preop = "none"
    /\ arg = 0
    /\ from = 0
    /\ data = <<>>
    /\ pc = "client"
    /\ drv = NewLocals
    /\ recs = <<>>
    /\ buffer = <<>>

Called(name, n, call) ==
    /\ \E r \in {call} : s' = r.st /\ data' = r.val
    /\ op' = name
    /\ preop' = op
    /\ arg' = n
    /\ from' = s.pos
    /\ UNCHANGED <<frags, recs, file, pc, drv, buffer>>

Read ==
    /\ pc = "client"
    /\ s.err = "none"
    /\ \E n \in 1..MaxRead : Called("read", n, read(file, s, n))

NextPhysicalRecord ==
    /\ pc = "client"
    /\ s.err = "none"
    /\ Called("next_physical_record", 0, next_physical_record(file, s))

NextLogicalRecord ==
    /\ pc = "client"
    /\ s.err = "none"
    /\ Called("next_logical_record", 0, next_logical_record(file, s))

Next == Read \/ NextPhysicalRecord \/ NextLogicalRecord

Spec == Init /\ [][Next]_vars

(***************************************************************************)
(* Input files of the converter: the file header, then up to MaxRecs       *)
(* logical records.  A record [hdr, mini, npart, datrec, fault] is named   *)
(* IJEVHD if hdr, of format MINIDST if mini, holds npart particles, and    *)
(* has its data in a second fragment if datrec = 1.  Only the last record  *)
(* of a file may have a fault (nothing after a fault is read); the fault   *)
(* "datrec" stands for a well-formed record whose header names a datrec of *)
(* 2 instead of 1, or of -1 instead of 0, and the fault "negpart" for a    *)
(* record without particles whose PHMTOC names -1 of them.  Record r       *)
(* holds the event EventBase + r with the tick count <<r, 0, ...>>, and    *)
(* its particle k has the id 10 * r + k.                                   *)
(***************************************************************************)
NParts == {0, 2}
EventBase == 100
RunNumber == 1065

I32(v) ==
    LET w == IF v < 0 THEN (v + 2147483647) + 1 ELSE v
    IN <<w % 256, (w \div 256) % 256, (w \div 65536) % 256,
         (w \div 16777216) + (IF v < 0 THEN 128 ELSE 0)>>

Fill(n, b) == [i \in 1..n |-> b]
Str(codes, n) == codes \o Fill(n - Len(codes), 32)
OtherName == <<79, 84, 72, 69, 82>>

Frag(fl, pay) ==
    <<(8 + Len(pay)) % 256, (8 + Len(pay)) \div 256, 0, 0, 0, 0,
      fl % 256, fl \div 256>> \o pay

GoodRecs ==
    {[hdr |-> FALSE, mini |-> FALSE, npart |-> 0, datrec |-> dr, fault |-> "none"] :
        dr \in {0, 1}}
    \cup {[hdr |-> TRUE, mini |-> FALSE, npart |-> 0, datrec |-> 0, fault |-> "none"]}
    \cup {[hdr |-> FALSE, mini |-> TRUE, npart |-> 2, datrec |-> 0, fault |-> "none"]}
    \cup {[hdr |-> TRUE, mini |-> TRUE, npart |-> n, datrec |-> dr, fault |-> "none"] :
            n \in NParts, dr \in {0, 1}}

FaultsOf(x) ==
    {"sync1", "sync2", "cut_header", "cut_record", "cut_data"}
    \cup (IF x.hdr THEN {"usroff"} ELSE {})
    \cup (IF x.mini THEN {"tocoff1", "datoff", "mcpart"} ELSE {})
    \cup (IF x.mini /\ x.hdr THEN {"datrec"} ELSE {})
    \cup (IF x.mini /\ x.hdr /\ x.npart = 0 THEN {"negpart"} ELSE {})

RecLists ==
    UNION {[1..n -> GoodRecs] : n \in 0..MaxRecs}

WithFault(xs) ==
    {xs} \cup (IF xs = <<>> THEN {}
               ELSE {[xs EXCEPT ![Len(xs)].fault = ft] : ft \in FaultsOf(xs[Len(xs)])})

\* the datrec the record header names: 1 or 0, or with the fault "datrec"
\* (which is none to the reader) 2 or -1
DatrecOf(x) ==
    IF x.fault = "datrec" THEN (IF x.datrec = 1 THEN 2 ELSE -1) ELSE x.datrec

\* the NPhPSum of PHMTOC: the number of particles written, or with the
\* fault "negpart" a negative count
NPhPSumOf(x) == IF x.fault = "negpart" THEN -1 ELSE x.npart

\* the offsets the record header names, counted as n_bytes counts
UsroffOf(x) == 120
Tocoff1Of(x) == 120 + (IF x.hdr THEN 32 ELSE 0)
DatoffOf(x) == IF x.datrec = 1 THEN 8 ELSE Tocoff1Of(x) + 72

RecordHeaderBytes(x, r) ==
    I32(r) \o Fill(12, 0) \o Str(<<>>, 8) \o Fill(8, 0)
    \o Str(IF x.mini THEN MINIDST ELSE OtherName, 8) \o Str(<<>>, 8)
    \o I32(0) \o I32(DatrecOf(x)) \o I32(0) \o I32(0)
    \o I32(Tocoff1Of(x) + (IF x.fault = "tocoff1" THEN 4 ELSE 0))
    \o I32(0) \o I32(0)
    \o I32(DatoffOf(x) + (IF x.fault = "datoff" THEN 4 ELSE 0))
    \o Str(<<>>, 8) \o Str(IF x.hdr THEN IJEVHD ELSE OtherName, 8)
    \o I32(UsroffOf(x) + (IF x.fault = "usroff" THEN 4 ELSE 0))
    \o Fill(12, 0)

\* r milliseconds of ticks
Ticks(r) == <<(r * TicksPerMilli) % 256, (r * TicksPerMilli) \div 256, 0, 0, 0, 0, 0, 0>>

EventBytes(r) ==
    I32(0) \o I32(RunNumber) \o I32(EventBase + r) \o Ticks(r) \o Fill(12, 0)

PhmtocBytes(x) ==
    Fill(4, 0) \o I32(IF x.fault = "mcpart" THEN 1 ELSE 0) \o I32(NPhPSumOf(x))
    \o Fill(60, 0)

ParticleId(r, k) == 10 * r + k

RECURSIVE ParticleBytes(_, _, _)
ParticleBytes(r, k, n) ==
    IF k > n THEN <<>>
    ELSE I32(ParticleId(r, k)) \o Fill(32, 0) \o ParticleBytes(r, k + 1, n)

\* the part of record r written before its data, and its data
HeadBytes(x, r) ==
    RecordHeaderBytes(x, r) \o (IF x.hdr THEN EventBytes(r) ELSE <<>>)
    \o (IF x.mini THEN PhmtocBytes(x) ELSE <<>>)

DataBytes(x, r) ==
    IF x.mini THEN Fill(20, 0) \o ParticleBytes(r, 1, x.npart)
    ELSE IF x.datrec = 1 THEN <<1, 2, 3, 4>> ELSE <<>>

\* the flags of the last fragment of a record, its framing faults included
LastFlags(x, right) ==
    CASE x.fault = "sync1" -> 4
      [] x.fault = "sync2" -> FlipBit1(right)
      [] OTHER -> right

RecBytes(x, r) ==
    IF x.datrec = 1
    THEN Frag(1, HeadBytes(x, r)) \o Frag(LastFlags(x, 2), DataBytes(x, r))
    ELSE Frag(LastFlags(x, 0), HeadBytes(x, r) \o DataBytes(x, r))

RECURSIVE RecsBytes(_, _)
RecsBytes(xs, r) ==
    IF r > Len(xs) THEN <<>> ELSE RecBytes(xs[r], r) \o RecsBytes(xs, r + 1)

\* the file header: fh.tag, fh.created (tick bytes), fh.fl (the flags of its
\* first fragment) and fh.split (the payload bytes before a second fragment)
FileHeaderPayload(fh) ==
    fh.tag \o I32(0) \o fh.created \o Ticks(0) \o I32(0) \o Str(<<>>, 80)

FileHeaderBytes(fh) ==
    LET pay == FileHeaderPayload(fh)
    IN IF fh.split = 0 THEN Frag(fh.fl, pay)
       ELSE Frag(fh.fl + 1, SubSeq(pay, 1, fh.split))
            \o Frag(2, SubSeq(pay, fh.split + 1, Len(pay)))

GoodFileHeader ==
    [tag |-> Str(JAZELLE, 8), created |-> Ticks(0), fl |-> 0, split |-> 0]

\* JAZELLE followed by a tab, a wrong letter, a byte above 127; a tick count
\* past the year 9999; framing faults; a header split inside the tag
FaultyFileHeaders ==
    {[GoodFileHeader EXCEPT !.tag = tg] :
        tg \in {JAZELLE \o <<9>>, Str(<<74, 65, 90, 69, 76, 76>>, 8),
                JAZELLE \o <<200>>, <<32>> \o JAZELLE}}
    \cup {[GoodFileHeader EXCEPT !.created = <<255, 255, 255, 255, 255, 255, 255, 127>>]}
    \cup {[GoodFileHeader EXCEPT !.fl = v] : v \in {2, 4}}
    \cup {[GoodFileHeader EXCEPT !.split = 4]}
    \cup {[GoodFileHeader EXCEPT !.split = 4, !.tag = JAZELLE \o <<9>>]}

FileHeaderLen(fh) == IF fh.split = 0 THEN 120 ELSE 128

RecLen(x) ==
    Len(HeadBytes(x, 1)) + Len(DataBytes(x, 1)) + (IF x.datrec = 1 THEN 16 ELSE 8)

RECURSIVE RecStart(_, _)
RecStart(in, r) ==
    IF r <= 1 THEN FileHeaderLen(in.fh)
    ELSE RecStart(in, r - 1) + RecLen(in.list[r - 1])

\* the length a cut file is left with: inside the physical header of its
\* last record, inside its record header, or two bytes short of its end
CutLen(in, whole) ==
    LET x == in.list[Len(in.list)]
        b == RecStart(in, Len(in.list))
    IN CASE x.fault = "cut_header" -> b + 3
         [] x.fault = "cut_record" -> b + 60
         [] x.fault = "cut_data" -> whole - 2
         [] OTHER -> whole

FileOf(in) ==
    LET whole == FileHeaderBytes(in.fh) \o RecsBytes(in.list, 1)
    IN IF in.list = <<>> THEN whole
       ELSE SubSeq(whole, 1, CutLen(in, Len(whole)))

MainInputs ==
    {[fh |-> GoodFileHeader, list |-> xs] :
        xs \in UNION {WithFault(l) : l \in RecLists}}
    \cup {[fh |-> fh, list |-> xs] :
            fh \in FaultyFileHeaders, xs \in {<<>>} \cup {<<x>> : x \in GoodRecs}}

(***************************************************************************)
(* The converter specification: main opens the file, constructs the        *)
(* JazelleInputStream, iterates over the logical records until an          *)
(* exception ends the loop, then builds and writes the output.             *)
(***************************************************************************)
InitMain ==
    /\ recs \in MainInputs
    /\ file = FileOf(recs)
    /\ frags = <<>>
    /\ s = NewStream
    /\ op = "none"
    /\ preop = "none"
    /\ arg = 0
    /\ from = 0
    /\ data = <<>>
    /\ pc = "start"
    /\ drv = NewLocals
    /\ buffer = <<>>

\* line 36: an exception of the constructor is not caught
Construct ==
    /\ pc = "start"
    /\ \E r \in {Jazelle_init(file)} :
          /\ s' = r.st
          /\ pc' = IF r.st.err = "none" THEN "loop" ELSE "crashed"
    /\ op' = "JazelleInputStream"
    /\ from' = s.pos
    /\ preop' = op
    /\ UNCHANGED <<frags, recs, file, arg, data, drv, buffer>>

\* lines 54-240: one iteration of the loop
LoopIteration ==
    /\ pc = "loop"
    /\ \E r \in {loop_body(file, s, drv)} :
          /\ s' = r.st
          /\ drv' = r.d
          /\ pc' = IF ends_loop(r.d.err) THEN "after" ELSE "loop"
    /\ op' = "loop"
    /\ preop' = op
    /\ from' = s.pos
    /\ UNCHANGED <<frags, recs, file, arg, data, buffer>>

\* lines 242-308: main returns the combined frame, or the merge raises
Output ==
    /\ pc = "after"
    /\ \E out \in {write_output(drv)} :
          /\ pc' = IF out.err = "none" THEN "done" ELSE "crashed"
          /\ data' = out.rows
    /\ op' = "output"
    /\ preop' = op
    /\ UNCHANGED <<frags, recs, file, s, arg, from, drv, buffer>>

NextMain == Construct \/ LoopIteration \/ Output

SpecMain == InitMain /\ [][NextMain]_vars

(***************************************************************************)
(* The scalar readers of JazelleInputStream on a file of the file header   *)
(* and one record of eight bytes: two VAX words, or one tick count.        *)
(***************************************************************************)
\* the bytes of the word with sign s, exponent field e, mantissa bits mh, lo
VaxWord(sign, e, mh, lo) ==
    <<128 * (e % 2) + mh, 128 * sign + e \div 2, lo % 256, lo \div 256>>

VaxWords ==
    {VaxWord(sign, e, mh, lo) :
        sign \in {0, 1}, e \in {0, 1, 2, 3, 128, 129, 254, 255},
        mh \in {0, 1, 127}, lo \in {0, 1, 65535}}

TickWords ==
    {
     <<0, 0, 0, 0, 0, 0, 0, 0>>,  \* 0
     <<1, 0, 0, 0, 0, 0, 0, 0>>,  \* 1
     <<255, 255, 255, 255, 255, 255, 255, 255>>,  \* -1
     <<15, 39, 0, 0, 0, 0, 0, 0>>,  \* 9999
     <<16, 39, 0, 0, 0, 0, 0, 0>>,  \* 10000
     <<240, 216, 255, 255, 255, 255, 255, 255>>,  \* -10000
     <<239, 216, 255, 255, 255, 255, 255, 255>>,  \* -10001
     <<160, 163, 90, 76, 103, 149, 124, 0>>,  \* 1970-01-01 00:00:00
     <<114, 168, 142, 114, 92, 1, 153, 0>>,  \* 1995-05-09 06:13:20 and 1234 ticks
     <<255, 255, 255, 255, 255, 255, 255, 127>>,  \* 2^63 - 1
     <<0, 0, 0, 0, 0, 0, 0, 128>>,  \* -2^63
     <<160, 35, 165, 84, 113, 21, 221, 247>>,  \* 0001-01-01 00:00:00, FirstTick
     <<159, 35, 165, 84, 113, 21, 221, 247>>,  \* FirstTick - 1
     <<160, 99, 220, 72, 231, 61, 167, 35>>   \* LastTick + 1
    }

ScalarPayloads == {w \o VaxWord(0, 129, 0, 0) : w \in VaxWords} \cup TickWords

ScalarFile(p) == FileHeaderBytes(GoodFileHeader) \o Frag(0, p)

InitScalar ==
    /\ file \in {ScalarFile(p) : p \in ScalarPayloads}
    /\ s = next_logical_record(file, Jazelle_init(file).st).st
    /\ frags = <<>>
    /\ recs = <<>>
    /\ op = "none"
    /\ preop = "none"
    /\ arg = 0
    /\ from = 0
    /\ data = <<>>
    /\ pc = "scalar"
    /\ drv = NewLocals
    /\ buffer = <<>>

ReadFloat ==
    /\ pc = "scalar"
    /\ s.err = "none"
    /\ Called("read_float", 0, read_float(file, s))

ReadDate ==
    /\ pc = "scalar"
    /\ s.err = "none"
    /\ Called("read_date", 0, read_date(file, s))

NextScalar == ReadFloat \/ ReadDate

SpecScalar == InitScalar /\ [][NextScalar]_vars

(***************************************************************************)
(* utils/data_buffer.py and the bank decoders of banks/.  A call gives the *)
(* buffer after it, the exception it raised ("none": it returned) and the  *)
(* value it returned.                                                      *)
(***************************************************************************)
DataBuffer(bytes) == [buffer |-> bytes, offset |-> 0, size |-> Len(bytes)]

Ret(buf, val) == [buf |-> buf, err |-> "none", val |-> val]

Fail(buf, e) == [buf |-> buf, err |-> e, val |-> None]

\* K(r) unless the call r raised
TryBuf(r, K(_)) == CHOOSE y \in {IF x.err # "none" THEN x ELSE K(x) : x \in {r}} : TRUE

\* an index of a Python slice: a negative one counts from the end, and the
\* result is clipped to 0 .. len
SliceIndex(i, len) == IF i < 0 THEN Max(i + len, 0) ELSE Min(i, len)

\* memoryview[lo:hi]: empty when hi is not past lo
Slice(b, lo, hi) == SubSeq(b, SliceIndex(lo, Len(b)) + 1, SliceIndex(hi, Len(b)))

\* a read that leaves the cursor where it was
read_unadvanced(buf, n) == Ret(buf, Slice(buf.buffer, buf.offset, buf.offset + n))

DataBuffer_read(buf, n) ==
    Ret([buf EXCEPT !.offset = @ + n], Slice(buf.buffer, buf.offset, buf.offset + n))

DataBuffer_skip(buf, n) == Ret([buf EXCEPT !.offset = @ + n], None)

remaining(buf) == buf.size - buf.offset

\* a numpy dtype is kept as the byte sizes of its fields
RECURSIVE itemsize(_)
itemsize(dtype) == IF dtype = <<>> THEN 0 ELSE Head(dtype) + itemsize(Tail(dtype))

PHPSUM_DTYPE == <<4, 4, 4, 4, 4, 4, 4, 4, 4>>

PHKLUS_DTYPE == <<4, 4, 4, 4, 4, 4, 4, 32, 4, 4, 4, 4, 4, 4, 4, 4, 4, 4>>

\* a layout of the 206 bytes that the table of record sizes gives PHCHRG
PHCHRG_tabulated == <<206>>

PHCHRG_DTYPE_RAW ==
    <<4, 24, 60, 4, 4, 4, 4, 2, 2, 4, 4, 20, 60, 4, 4,
      2, 2, 2, 2, 2, 2, 2, 2, 4, 4, 4, 2, 2, 4>>

PHKELID_DTYPE_RAW ==
    <<4, 2, 2, 4, 4, 4, 4, 4, 4, 4, 4, 4, 4, 4, 4, 4, 4, 4, 4, 4, 4, 4, 4, 4, 4>>

PHKTRK_DTYPE_RAW == <<4>>

PHWIC_DTYPE_RAW ==
    <<4, 2, 2, 2, 2, 2, 2, 4, 4, 4, 4, 4, 4, 2, 2, 4, 4, 2, 2, 4,
      12, 16, 40, 4, 2, 2, 4, 2, 2>>

FixedBanks == {"PHPSUM", "PHCHRG", "PHKLUS", "PHWIC", "PHKELID", "PHKTRK"}

record_size(bank) ==
    CASE bank = "PHPSUM" -> itemsize(PHPSUM_DTYPE)
      [] bank = "PHCHRG" -> itemsize(PHCHRG_DTYPE_RAW)
      [] bank = "PHKLUS" -> itemsize(PHKLUS_DTYPE)
      [] bank = "PHWIC" -> itemsize(PHWIC_DTYPE_RAW)
      [] bank = "PHKELID" -> itemsize(PHKELID_DTYPE_RAW)
      [] bank = "PHKTRK" -> itemsize(PHKTRK_DTYPE_RAW)

\* the structured array of the records of size bytes each; a record is kept
\* by its id, the first field of every layout
records_of(bytes, size) ==
    [i \in 1..(Len(bytes) \div size) |->
        [id |-> S32(SubSeq(bytes, (i - 1) * size + 1, (i - 1) * size + 4))]]

\* np.frombuffer(...).reshape(n, size // 4), or count=n: a ValueError unless
\* the bytes are those of n records (with n < 0 there are none such: the
\* reshape raises it, or np.empty(n) after a reshape to -1 rows)
frombuffer(r, n, size) ==
    IF Len(r.val) # n * size THEN Fail(r.buf, "ValueError")
    ELSE Ret(r.buf, records_of(r.val, size))

\* a parse that reads without the check of the remaining bytes
unchecked_parse(buf, n, bank) ==
    IF n = 0 THEN Ret(buf, <<>>)
    ELSE Bind(DataBuffer_read(buf, n * record_size(bank)), LAMBDA r :
            frombuffer(r, n, record_size(bank)))

\* PHPSUM.parse, PHCHRG.parse, PHWIC.parse, PHKELID.parse, PHKTRK.parse: the
\* exceptions of the try block are raised again as RuntimeError
checked_parse(buf, n, bank) ==
    IF n = 0 THEN Ret(buf, <<>>)
    ELSE IF remaining(buf) < n * record_size(bank)
    THEN Fail(buf, "ValueError")
    ELSE Bind(DataBuffer_read(buf, n * record_size(bank)), LAMBDA r :
         Bind(frombuffer(r, n, record_size(bank)), LAMBDA a :
            IF a.err # "none" THEN Fail(a.buf, "RuntimeError") ELSE a))

PHPSUM_parse(buf, n) == checked_parse(buf, n, "PHPSUM")

PHCHRG_parse(buf, n) == checked_parse(buf, n, "PHCHRG")

PHWIC_parse(buf, n) == checked_parse(buf, n, "PHWIC")

PHKELID_parse(buf, n) == checked_parse(buf, n, "PHKELID")

PHKTRK_parse(buf, n) == checked_parse(buf, n, "PHKTRK")

\* PHKLUS.parse reads before anything is checked
PHKLUS_parse(buf, n) == unchecked_parse(buf, n, "PHKLUS")

\* little-endian signed 16 bit
S16(b) == IF U16(b) >= 32768 THEN U16(b) - 65536 ELSE U16(b)

\* a Python float that is an integer k of magnitude below 2^31
Float(k) == <<"int", k>>

\* vax.from_vax32 on the four bytes of a word, the value of the VAX
\* F_floating number: 0 for a clear sign and exponent field 0, and otherwise
\* (-1)^sign * (2^23 + mantissa) * 2^(e - 129) / 2^23.  An integer of
\* magnitude below 256 is kept as that integer; any other float is kept as
\* the sign, exponent field and mantissa that determine it
from_vax32(b) ==
    LET w == U16(SubSeq(b, 1, 2))
        e == Bits(w, 7, 8)
        m == 65536 * Bits(w, 0, 7) + U16(SubSeq(b, 3, 4))
    IN  IF e = 0 /\ Bits(w, 15, 1) = 0 THEN Float(0)
        ELSE IF e \in 129..136 /\ ((8388608 + m) * 2^(e - 129)) % 8388608 = 0
        THEN Float((IF Bits(w, 15, 1) = 1 THEN -1 ELSE 1)
                   * (((8388608 + m) * 2^(e - 129)) \div 8388608))
        ELSE <<"f32", Bits(w, 15, 1), e, m>>

\* a + b of two Python floats: the sum of small integers is exact; any
\* other sum is kept as its two operands
fadd(a, b) ==
    IF a[1] = "int" /\ b[1] = "int" THEN Float(a[2] + b[2]) ELSE <<"sum", a, b>>

\* PHMTOC: one float and 17 ints
PHMTOC_RECORD_SIZE == 72

\* PHMTOC.parse: the read is not checked; np.frombuffer wants whole words,
\* and a word that is not there is an index out of range
PHMTOC_parse(buf) ==
    Bind(DataBuffer_read(buf, PHMTOC_RECORD_SIZE), LAMBDA r :
        IF Len(r.val) % 4 # 0 THEN Fail(r.buf, "ValueError")
        ELSE IF Len(r.val) < PHMTOC_RECORD_SIZE THEN Fail(r.buf, "IndexError")
        ELSE Ret(r.buf, [Version |-> from_vax32(SubSeq(r.val, 1, 4)),
                         NMcPart |-> S32(SubSeq(r.val, 5, 8)),
                         NPhPSum |-> S32(SubSeq(r.val, 9, 12))]))

HEADER_DTYPE_RAW == <<4, 4, 2, 2, 2, 2>>

CRIDHYP_FULL_DTYPE_RAW == <<4, 4, 4, 4, 4, 2, 2, 4, 2, 2, 2, 2>>

CRIDHYP_SHORT_DTYPE_RAW == <<2, 2>>

\* a control word test on the other hypothesis bit
liq_present_bit17(ctlword) == Bits(ctlword, 17, 1) # 0

liq_present(ctlword) == Bits(ctlword, 16, 1) # 0

gas_present(ctlword) == Bits(ctlword, 17, 1) # 0

parse_cridhyp(buf, full) ==
    IF full
    THEN IF remaining(buf) < 36 THEN Fail(buf, "ValueError")
         ELSE Bind(DataBuffer_read(buf, 36), LAMBDA r :
                Ret(r.buf,
                    [llik |-> [k \in 1..5 |-> from_vax32(SubSeq(r.val, 4 * k - 3, 4 * k))],
                     rc |-> S16(SubSeq(r.val, 21, 22)),
                     nhits |-> S16(SubSeq(r.val, 23, 24)),
                     besthyp |-> S32(SubSeq(r.val, 25, 28)),
                     nhexp |-> S16(SubSeq(r.val, 29, 30)),
                     nhfnd |-> S16(SubSeq(r.val, 31, 32)),
                     nhbkg |-> S16(SubSeq(r.val, 33, 34)),
                     mskphot |-> S16(SubSeq(r.val, 35, 36))]))
    ELSE IF remaining(buf) < 4 THEN Fail(buf, "ValueError")
         ELSE Bind(DataBuffer_read(buf, 4), LAMBDA r :
                Ret(r.buf,
                    [llik |-> None,
                     rc |-> S16(SubSeq(r.val, 1, 2)),
                     nhits |-> S16(SubSeq(r.val, 3, 4)),
                     besthyp |-> 0, nhexp |-> 0, nhfnd |-> 0, nhbkg |-> 0,
                     mskphot |-> 0]))

\* a combination that leaves the gas hypothesis out
combine_liquid_only(liq_llik, gas_llik, norm) ==
    [k \in 1..5 |-> IF liq_llik # None THEN fadd(norm, liq_llik[k]) ELSE norm]

\* the PIDVEC is kept as the sequence of its e, mu, pi, k and p
combine_pidvec(liq_llik, gas_llik, norm) ==
    LET result == [k \in 1..5 |-> norm]
        with_liq == IF liq_llik # None
                    THEN [k \in 1..5 |-> fadd(result[k], liq_llik[k])] ELSE result
    IN  IF gas_llik # None
        THEN [k \in 1..5 |-> fadd(with_liq[k], gas_llik[k])] ELSE with_liq

\* lines 85-126: one turn of the loop of PHCRID.parse
PHCRID_record(buf) ==
    IF remaining(buf) < itemsize(HEADER_DTYPE_RAW) THEN Fail(buf, "ValueError")
    ELSE Bind(DataBuffer_read(buf, itemsize(HEADER_DTYPE_RAW)), LAMBDA h :
         Bind(S32(SubSeq(h.val, 1, 4)), LAMBDA ctlword :
         TryBuf(parse_cridhyp(h.buf, liq_present(ctlword)), LAMBDA liq :
         TryBuf(parse_cridhyp(liq.buf, gas_present(ctlword)), LAMBDA gas :
            Ret(gas.buf,
                [id |-> ctlword,
                 rc |-> S16(SubSeq(h.val, 9, 10)),
                 geom |-> S16(SubSeq(h.val, 11, 12)),
                 trkp |-> S16(SubSeq(h.val, 13, 14)),
                 nhits |-> S16(SubSeq(h.val, 15, 16)),
                 liq_hyp |-> liq.val,
                 gas_hyp |-> gas.val,
                 llik |-> combine_pidvec(
                     IF liq_present(ctlword) THEN liq.val.llik ELSE None,
                     IF gas_present(ctlword) THEN gas.val.llik ELSE None,
                     from_vax32(SubSeq(h.val, 5, 8)))])))))

RECURSIVE PHCRID_loop(_, _, _)
PHCRID_loop(buf, k, records) ==
    IF k <= 0 THEN Ret(buf, records)
    ELSE Bind(PHCRID_record(buf), LAMBDA r :
            IF r.err # "none" THEN Fail(r.buf, "RuntimeError")
            ELSE PHCRID_loop(r.buf, k - 1, Append(records, r.val)))

PHCRID_parse(buf, n) == IF n = 0 THEN Ret(buf, <<>>) ELSE PHCRID_loop(buf, n, <<>>)

(***************************************************************************)
(* A client of the bank decoders: a DataBuffer over the bytes of a bank,   *)
(* up to MaxCalls reads or skips, then the parse of one bank.  recs holds  *)
(* what the bytes were written from.                                       *)
(***************************************************************************)
MaxBankRecs == 2
MaxCalls == 1

I16(v) == <<v % 256, (v \div 256) % 256>>

RECURSIVE Log2(_)
Log2(k) == IF k < 2 THEN 0 ELSE 1 + Log2(k \div 2)

\* the VAX word of the integer k, 0 <= |k| < 256
VaxOfInt(k) ==
    IF k = 0 THEN <<0, 0, 0, 0>>
    ELSE LET a == IF k < 0 THEN -k ELSE k
             j == Log2(a)
             m == (a - 2^j) * 2^(23 - j)
         IN  VaxWord(IF k < 0 THEN 1 ELSE 0, 129 + j, m \div 65536, m % 65536)

\* record i of a fixed-width bank: its id, then zeros
FixedBytes(bank, i) == I32(1000 + i) \o Fill(record_size(bank) - 4, 0)

\* record i of a PHCRID bank with the hypothesis bits ctl (1: liquid, 2: gas)
CridId(x, i) == 65536 * x.ctl + i
CridNorm(i) == 100 - 3 * i
LiqLlik(i) == [k \in 1..5 |-> 8 * i + k]
GasLlik(i) == [k \in 1..5 |-> -(40 * i + 2 * k)]

HypBytes(full, llik, rc, i) ==
    IF full
    THEN VaxOfInt(llik[1]) \o VaxOfInt(llik[2]) \o VaxOfInt(llik[3])
         \o VaxOfInt(llik[4]) \o VaxOfInt(llik[5])
         \o I16(rc) \o I16(i) \o I32(rc + 2) \o I16(5) \o I16(6) \o I16(7) \o I16(-1)
    ELSE I16(rc) \o I16(i)

CridBytes(x, i) ==
    I32(CridId(x, i)) \o VaxOfInt(CridNorm(i)) \o I16(-2) \o I16(11) \o I16(12) \o I16(i)
    \o HypBytes(x.ctl % 2 = 1, LiqLlik(i), 1, i)
    \o HypBytes(x.ctl \div 2 = 1, GasLlik(i), 2, i)

CridLen(x) ==
    16 + (IF x.ctl % 2 = 1 THEN 36 ELSE 4) + (IF x.ctl \div 2 = 1 THEN 36 ELSE 4)

RECURSIVE ItemsBytes(_, _, _)
ItemsBytes(bank, items, i) ==
    IF i > Len(items) THEN <<>>
    ELSE (IF bank = "PHCRID" THEN CridBytes(items[i], i) ELSE FixedBytes(bank, i))
         \o ItemsBytes(bank, items, i + 1)

\* the bytes of the bank, cut short by -cut bytes or followed by cut zeros
BankBytes(in) ==
    LET b == ItemsBytes(in.bank, in.items, 1)
    IN  IF in.cut <= 0 THEN SubSeq(b, 1, Len(b) + in.cut) ELSE b \o Fill(in.cut, 0)

CridItems == [ctl : 0..3]

ItemLists(bank) ==
    IF bank = "PHCRID"
    THEN UNION {[1..n -> CridItems] : n \in 1..MaxBankRecs}
    ELSE {[i \in 1..n |-> [ctl |-> 0]] : n \in 1..MaxBankRecs}

InputsOf(bank) ==
    {[bank |-> bank, items |-> items, cut |-> cut] :
        items \in ItemLists(bank), cut \in {-1, 0, 4}}

BankInputs == UNION {InputsOf(bank) : bank \in FixedBanks \cup {"PHCRID"}}

InitBanks ==
    /\ recs \in BankInputs
    /\ buffer = DataBuffer(BankBytes(recs))
    /\ frags = <<>>
    /\ file = <<>>
    /\ s = NewStream
    /\ op = "none"
    /\ preop = "none"
    /\ arg = 0
    /\ from = 0
    /\ data = [err |-> "none", val |-> None]
    /\ pc = [at |-> "client", calls |-> 0]
    /\ drv = NewLocals

BankCalled(name, n, r) ==
    /\ buffer' = r.buf
    /\ data' = [err |-> r.err, val |-> r.val]
    /\ op' = name
    /\ preop' = op
    /\ arg' = n
    /\ from' = buffer.offset
    /\ UNCHANGED <<frags, recs, file, s, drv>>

ReadSizes == {0, 3, 36}

BufRead ==
    /\ pc.at = "client"
    /\ pc.calls < MaxCalls
    /\ \E n \in ReadSizes : \E r \in {DataBuffer_read(buffer, n)} : BankCalled("read", n, r)
    /\ pc' = [pc EXCEPT !.calls = @ + 1]

BufSkip ==
    /\ pc.at = "client"
    /\ pc.calls < MaxCalls
    /\ \E n \in {4} : \E r \in {DataBuffer_skip(buffer, n)} : BankCalled("skip", n, r)
    /\ pc' = [pc EXCEPT !.calls = @ + 1]

Parsed(r, name, n) ==
    /\ pc.at = "client"
    /\ BankCalled(name, n, r)
    /\ pc' = [pc EXCEPT !.at = "parsed"]

\* the record counts a parse is given: none, some, and a negative one
ParseCounts == (-1)..MaxBankRecs

ParsePHMTOC ==
    /\ pc.at = "client"
    /\ \E r \in {PHMTOC_parse(buffer)} : Parsed(r, "PHMTOC", 1)

ParsePHPSUM ==
    /\ pc.at = "client"
    /\ \E n \in ParseCounts : \E r \in {PHPSUM_parse(buffer, n)} : Parsed(r, "PHPSUM", n)

ParsePHCHRG ==
    /\ pc.at = "client"
    /\ \E n \in ParseCounts : \E r \in {PHCHRG_parse(buffer, n)} : Parsed(r, "PHCHRG", n)

ParsePHKLUS ==
    /\ pc.at = "client"
    /\ \E n \in ParseCounts : \E r \in {PHKLUS_parse(buffer, n)} : Parsed(r, "PHKLUS", n)

ParsePHWIC ==
    /\ pc.at = "client"
    /\ \E n \in ParseCounts : \E r \in {PHWIC_parse(buffer, n)} : Parsed(r, "PHWIC", n)

ParsePHKELID ==
    /\ pc.at = "client"
    /\ \E n \in ParseCounts : \E r \in {PHKELID_parse(buffer, n)} : Parsed(r, "PHKELID", n)

ParsePHKTRK ==
    /\ pc.at = "client"
    /\ \E n \in ParseCounts : \E r \in {PHKTRK_parse(buffer, n)} : Parsed(r, "PHKTRK", n)

ParsePHCRID ==
    /\ pc.at = "client"
    /\ \E n \in ParseCounts : \E r \in {PHCRID_parse(buffer, n)} : Parsed(r, "PHCRID", n)

NextBanks ==
    \/ BufRead \/ BufSkip
    \/ ParsePHPSUM \/ ParsePHCHRG \/ ParsePHKLUS \/ ParsePHWIC
    \/ ParsePHKELID \/ ParsePHKTRK \/ ParsePHCRID
    \/ ParsePHMTOC

SpecBanks == InitBanks /\ [][NextBanks]_vars

(***************************************************************************)
(* The reader specification, turn by turn: the client of Spec, with the    *)
(* loops of read and of next_logical_record run one turn at a step.  pc is *)
(* [at, size, result, calls]: where the program is, the size a read still  *)
(* wants, the bytes it has gathered and the calls made so far; buffer      *)
(* holds the stream as it was when the call began.  A program that is      *)
(* inside a loop goes on to its next turn: the turns are weakly fair.      *)
(***************************************************************************)
Idle(calls) == [at |-> "client", size |-> 0, result |-> <<>>, calls |-> calls]

InitSteps ==
    /\ \E in \in AllInputs : frags = in[1] /\ file = in[2]
    /\ s = Logical_init(file).st
    /\ op = "init"
    /\ preop = "none"
    /\ arg = 0
    /\ from = 0
    /\ data = <<>>
    /\ pc = Idle(0)
    /\ drv = NewLocals
    /\ recs = <<>>
    /\ buffer = NewStream

\* the client calls name(n): the program enters the body of the operation
Enter(name, n) ==
    /\ pc.at = "client"
    /\ pc.calls < MaxCalls
    /\ s.err = "none"
    /\ pc' = [at |-> name, size |-> n, result |-> <<>>, calls |-> pc.calls + 1]
    /\ op' = name
    /\ preop' = op
    /\ arg' = n
    /\ from' = s.pos
    /\ buffer' = s
    /\ data' = <<>>
    /\ UNCHANGED <<frags, recs, file, s, drv>>

\* the sizes read: within a payload, across one boundary, across several
TurnSizes == {1, 3, MaxRead}

CallRead == \E n \in TurnSizes : Enter("read", n)
CallNextLogicalRecord == Enter("next_logical_record", 0)

\* the operation returns val, or raises (s.err says which)
Leave(st, val) ==
    /\ s' = st
    /\ data' = val
    /\ pc' = Idle(pc.calls)

\* the test of the while of read, and one turn of it
ReadTurn ==
    /\ pc.at = "read"
    /\ IF ~(pc.size > 0) THEN Leave(s, pc.result)
       ELSE \E t \in {read_turn(file, s, pc.size, pc.result)} :
               IF t.st.err # "none" THEN Leave(t.st, t.val)
               ELSE /\ s' = t.st
                    /\ pc' = [pc EXCEPT !.size = t.val.size,
                                        !.result = t.val.result]
                    /\ data' = data
    /\ UNCHANGED <<frags, recs, file, op, preop, arg, from, drv, buffer>>

\* the test of the while of next_logical_record and one turn of it, or the
\* call after the loop
LogicalTurn ==
    /\ pc.at = "next_logical_record"
    /\ \E r \in {next_physical_record(file, s)} :
          IF s.to_be_continued /\ r.st.err = "none"
          THEN s' = r.st /\ UNCHANGED <<pc, data>>
          ELSE Leave(r.st, r.val)
    /\ UNCHANGED <<frags, recs, file, op, preop, arg, from, drv, buffer>>

\* next_physical_record has no loop
StepNextPhysicalRecord ==
    /\ Enter("next_physical_record", 0)!1
    /\ Enter("next_physical_record", 0)!2
    /\ Enter("next_physical_record", 0)!3
    /\ \E r \in {next_physical_record(file, s)} : s' = r.st /\ data' = r.val
    /\ pc' = Idle(pc.calls + 1)
    /\ op' = "next_physical_record"
    /\ preop' = op
    /\ arg' = 0
    /\ from' = s.pos
    /\ buffer' = s
    /\ UNCHANGED <<frags, recs, file, drv>>

NextSteps ==
    \/ CallRead \/ ReadTurn
    \/ CallNextLogicalRecord \/ LogicalTurn
    \/ StepNextPhysicalRecord

SpecSteps ==
    /\ InitSteps
    /\ [][NextSteps]_vars
    /\ WF_vars(ReadTurn)
    /\ WF_vars(LogicalTurn)

(***************************************************************************)
(* What the file holds, read off the bytes and the fragments written.      *)
(***************************************************************************)
\* the flags word of the header that starts at file offset h
FlagsAt(h) == file[h + 7] + 256 * file[h + 8]
HeaderWhole(h) == h + 8 <= Len(file)

\* fragments i .. i+k-1 are one well-formed logical record, whole in the file
IsRecord(fs, i, k) ==
    /\ i + k - 1 <= Len(fs)
    /\ \A j \in i..(i + k - 1) :
          /\ fs[j].len = 8 + fs[j].pay
          /\ fs[j].fl = Flags(j < i + k - 1, j > i)
    /\ Start(fs, i + k - 1) + 8 + fs[i + k - 1].pay <= Len(file)

RECURSIVE Payloads(_, _, _)
Payloads(fs, i, k) ==
    IF k = 0 THEN <<>> ELSE Payload(fs, i) \o Payloads(fs, i + 1, k - 1)

(***************************************************************************)
(* C1: when next_logical_record has put the reader on the first fragment   *)
(* of a logical record of k >= 1 fragments, read(n) with n the record's    *)
(* payload length returns the k payloads one after the other, in file      *)
(* order, and nothing of the headers between them.                         *)
(***************************************************************************)
C1_ReadConcatenatesFragments ==
    \A i \in 1..Len(frags) : \A k \in 1..Len(frags) :
        ( /\ IsRecord(frags, i, k)
          /\ preop = "next_logical_record"
          /\ op = "read"
          /\ from = Start(frags, i) + 8
          /\ arg = Len(Payloads(frags, i, k)) )
        => /\ s.err = "none"
           /\ data = Payloads(frags, i, k)
           /\ \A b \in 1..Len(data) : data[b] > PayBase

\* a read of a record of three fragments, two of them at least with payload
C1_Witness ==
    \E i \in 1..Len(frags) :
        /\ IsRecord(frags, i, 3)
        /\ preop = "next_logical_record"
        /\ op = "read"
        /\ from = Start(frags, i) + 8
        /\ arg = Len(Payloads(frags, i, 3))
        /\ arg >= 4
        /\ data = Payloads(frags, i, 3)

(***************************************************************************)
(* C2: whenever a header has been consumed whose flags word has a bit set  *)
(* outside the low two, the operation that consumed it failed with         *)
(* IOSYNCH1, it is the last header consumed, the file stands right after   *)
(* it and the caller was given no byte.  (The callers of this repository   *)
(* stop at the first exception, and so does the client here.)              *)
(***************************************************************************)
C2_UnknownFlagBitsFail ==
    \A k \in 1..Len(s.hdrs) :
        (HeaderWhole(s.hdrs[k]) /\ FlagsAt(s.hdrs[k]) \notin 0..3)
        => /\ s.err = "IOSYNCH1"
           /\ k = Len(s.hdrs)
           /\ s.pos = s.hdrs[k] + 8
           /\ data = <<>>

\* the rollover inside read met such a header, in the high byte of the word
C2_Witness ==
    /\ op = "read"
    /\ s.err = "IOSYNCH1"
    /\ Len(s.hdrs) >= 2
    /\ FlagsAt(s.hdrs[Len(s.hdrs)]) >= 256

(***************************************************************************)
(* C3: the 'is continuation' bit of every fragment entered equals the      *)
(* 'continues' bit of the fragment entered before it (false for the first) *)
(* and a fragment whose bit disagrees makes the header read fail.          *)
(***************************************************************************)
Bit0(w) == w % 2 = 1
Bit1(w) == (w \div 2) % 2 = 1
Expected(k) == k > 1 /\ Bit0(FlagsAt(s.hdrs[k - 1]))
Entered(k) == k < Len(s.hdrs) \/ s.err = "none"

C3_EnteredFragmentsAgree ==
    \A k \in 1..Len(s.hdrs) :
        (HeaderWhole(s.hdrs[k]) /\ Entered(k))
        => Bit1(FlagsAt(s.hdrs[k])) = Expected(k)

\* C3 as stated: every disagreement is reported as IOSYNCH2
C3_Original ==
    /\ C3_EnteredFragmentsAgree
    /\ \A k \in 1..Len(s.hdrs) :
          (HeaderWhole(s.hdrs[k]) /\ Bit1(FlagsAt(s.hdrs[k])) # Expected(k))
          => (k = Len(s.hdrs) /\ s.err = "IOSYNCH2")

\* C3 as amended: a disagreement is reported as IOSYNCH2 unless the flags
\* word also has a bit outside the low two, which is reported first, as
\* IOSYNCH1
C3_Amended ==
    /\ C3_EnteredFragmentsAgree
    /\ \A k \in 1..Len(s.hdrs) :
          (HeaderWhole(s.hdrs[k]) /\ Bit1(FlagsAt(s.hdrs[k])) # Expected(k))
          => /\ k = Len(s.hdrs)
             /\ s.err = IF FlagsAt(s.hdrs[k]) \in 0..3 THEN "IOSYNCH2"
                        ELSE "IOSYNCH1"

C3_Witness ==
    /\ s.err = "IOSYNCH2"
    /\ Len(s.hdrs) >= 2
    /\ Bit1(FlagsAt(s.hdrs[Len(s.hdrs)])) # Expected(Len(s.hdrs))

(***************************************************************************)
(* C10: after calls that did not fail, get_n_bytes is at most the record   *)
(* length minus 4.                                                         *)
(***************************************************************************)
C10_Original == s.err = "none" => get_n_bytes(s) <= s.reclen - 4

\* C10 as amended: n_bytes counts the 8 header bytes of the fragment too; it
\* is at least 8, and at most the record length (8 if that is smaller)
C10_Amended ==
    s.err = "none" => (8 <= get_n_bytes(s) /\ get_n_bytes(s) <= Max(s.reclen, 8))

\* a read has taken the whole payload of a fragment
C10_Witness ==
    /\ s.err = "none"
    /\ op = "read"
    /\ s.reclen > 8
    /\ get_n_bytes(s) = s.reclen

(***************************************************************************)
(* What the converter's input holds, read off the records written.         *)
(***************************************************************************)
Fault == IF recs.list = <<>> THEN "none" ELSE recs.list[Len(recs.list)].fault
CutMidRecord == Fault \in {"cut_header", "cut_record", "cut_data"}
Rows(d) == d.all_records \o d.all_phmtoc \o d.all_phpsum

(***************************************************************************)
(* C4: a file that ends at a physical record boundary ends the loop by end *)
(* of file and nothing else, and a file that ends inside a physical record *)
(* is reported as a failure: main does not complete normally on it.        *)
(***************************************************************************)
C4_Original ==
    /\ (pc = "after" /\ Fault = "none") => drv.err = "EOFError"
    /\ pc = "done" => ~CutMidRecord

(***************************************************************************)
(* C5: once an iteration has raised, no further logical record is read,    *)
(* and main completes normally only when the loop was ended by the end of  *)
(* the file: not after a sync fault, an offset mismatch or a failed        *)
(* assertion on a bank.                                                    *)
(***************************************************************************)
C5_Original ==
    /\ drv.err # "none" => pc # "loop"
    /\ pc = "done" => drv.err = "EOFError"

(***************************************************************************)
(* C6: every record row, PHMTOC row and particle row collected comes from  *)
(* a logical record of format MINIDST whose decoding ran to its end.       *)
(***************************************************************************)
C6_Original ==
    \A i \in 1..Len(Rows(drv)) :
        /\ Rows(drv)[i].rec <= drv.done_recs
        /\ recs.list[Rows(drv)[i].rec].mini

(***************************************************************************)
(* C7: a header is pending from its IJEVHD record until a MINIDST record   *)
(* is decoded; every decoded MINIDST record with a header pending emits a  *)
(* PHMTOC row with the event number of that header, and there are never    *)
(* more PHMTOC rows than record rows.                                      *)
(***************************************************************************)
PendingAt(h, r) ==
    /\ h <= r
    /\ recs.list[h].hdr
    /\ \A m \in h..(r - 1) : ~recs.list[m].mini

C7_Original ==
    /\ Len(drv.all_phmtoc) <= Len(drv.all_records)
    /\ \A r \in 1..drv.done_recs : \A h \in 1..r :
          (recs.list[r].mini /\ PendingAt(h, r)
           /\ \A g \in (h + 1)..r : ~recs.list[g].hdr)
          => \E i \in 1..Len(drv.all_phmtoc) :
                /\ drv.all_phmtoc[i].rec = r
                /\ drv.all_phmtoc[i].event = EventBase + h

\* C7 as amended: the header is held for its own logical record only.  The
\* PHMTOC rows are those of the decoded records that are both named IJEVHD
\* and of format MINIDST, one row each, with the run, event and time of the
\* header of the same record; there are never more of them than record rows
C7_Amended ==
    /\ Len(drv.all_phmtoc) <= Len(drv.all_records)
    /\ \A i \in 1..Len(drv.all_phmtoc) :
          LET t == drv.all_phmtoc[i]
          IN /\ t.rec <= drv.done_recs
             /\ recs.list[t.rec].hdr /\ recs.list[t.rec].mini
             /\ t.run = RunNumber
             /\ t.event = EventBase + t.rec
             /\ t.time = utc_millis(S64(Ticks(t.rec)))
             /\ \A j \in 1..Len(drv.all_phmtoc) :
                   drv.all_phmtoc[j].rec = t.rec => j = i
    /\ \A r \in 1..drv.done_recs :
          (recs.list[r].hdr /\ recs.list[r].mini)
          => \E i \in 1..Len(drv.all_phmtoc) : drv.all_phmtoc[i].rec = r

\* an event was emitted, then a MINIDST record without a header of its own
\* was decoded and nothing was emitted for it
C7_Witness ==
    /\ drv.done_recs = 2
    /\ recs.list[1].hdr /\ recs.list[1].mini
    /\ ~recs.list[2].hdr /\ recs.list[2].mini
    /\ Len(drv.all_phmtoc) = 1
    /\ drv.all_phmtoc[1].event = EventBase + 1

(***************************************************************************)
(* C8: when the record main has come to is of format MINIDST and names a   *)
(* tocoff1 that differs from the byte count on entry, the iteration raises *)
(* the tocoff1 mismatch, the file stands where the record header (and the  *)
(* event header, if any) ended, and the record has no PHMTOC or particle   *)
(* row.                                                                    *)
(***************************************************************************)
C8_Tocoff1MismatchFails ==
    (drv.rec_no = Len(recs.list) /\ Fault = "tocoff1")
    => /\ drv.err = "ValueError: Inconsistent tocoff1"
       /\ pc # "loop"
       /\ s.pos = RecStart(recs, drv.rec_no) + 8 + 112
                  + (IF recs.list[drv.rec_no].hdr THEN 32 ELSE 0)
       /\ \A i \in 1..Len(drv.all_phmtoc) : drv.all_phmtoc[i].rec # drv.rec_no
       /\ \A i \in 1..Len(drv.all_phpsum) : drv.all_phpsum[i].rec # drv.rec_no

\* the second record of a file fails so, after its event header was parsed
\* and after the event of the first record was emitted
C8_Witness ==
    /\ pc = "after"
    /\ drv.rec_no = 2
    /\ Fault = "tocoff1"
    /\ recs.list[2].hdr
    /\ drv.err = "ValueError: Inconsistent tocoff1"
    /\ Len(drv.all_phmtoc) = 1

(***************************************************************************)
(* C9: the constructor of JazelleInputStream, on a file whose first        *)
(* fragment passes the sync checks, fails with the format error if the 8   *)
(* tag bytes without their trailing spaces are not JAZELLE; when it        *)
(* succeeds the first flags word passed the checks, the tag matched, and   *)
(* 112 payload bytes have been consumed.                                   *)
(***************************************************************************)
RECURSIVE Trimmed(_, _)
Trimmed(b, set) ==
    IF b # <<>> /\ b[Len(b)] \in set THEN Trimmed(SubSeq(b, 1, Len(b) - 1), set)
    ELSE b

BadMagic == "ValueError: Input is not in JAZELLE format!"
Consumed == s.pos - 8 * Len(s.hdrs)

C9_Original ==
    op = "JazelleInputStream"
    => /\ (recs.fh.fl = 0 /\ Trimmed(recs.fh.tag, {32}) # JAZELLE)
          => s.err = BadMagic
       /\ s.err = "none"
          => /\ recs.fh.fl = 0
             /\ Trimmed(recs.fh.tag, {32}) = JAZELLE
             /\ Consumed = 112

\* C9 as amended: the tag is compared without its trailing whitespace (tab,
\* line feed, vertical tab, form feed, carriage return, the separators 28
\* to 31, space); the format error is raised for a tag that differs, and
\* for no other
C9_Amended ==
    op = "JazelleInputStream"
    => /\ (recs.fh.fl = 0 /\ Trimmed(recs.fh.tag, (9..13) \cup (28..32)) # JAZELLE)
          => s.err = BadMagic
       /\ s.err = BadMagic
          => Trimmed(recs.fh.tag, (9..13) \cup (28..32)) # JAZELLE
       /\ s.err = "none"
          => /\ recs.fh.fl = 0
             /\ Trimmed(recs.fh.tag, (9..13) \cup (28..32)) = JAZELLE
             /\ Consumed = 112

\* the constructor accepted a tag that ends in a tab, read across the
\* boundary of two fragments
C9_Witness ==
    /\ op = "JazelleInputStream"
    /\ s.err = "none"
    /\ recs.fh.tag = JAZELLE \o <<9>>
    /\ Len(s.hdrs) = 2
    /\ Consumed = 112

(***************************************************************************)
(* C19: a record of format MINIDST that is not named IJEVHD, and so has no *)
(* event header to go with, gives no PHMTOC row and no particle row; when  *)
(* it is well formed its iteration falls through to the next one, and the  *)
(* loop goes on with the record after it.                                  *)
(***************************************************************************)
Headless(r) ==
    /\ r \in 1..Len(recs.list)
    /\ recs.list[r].mini
    /\ ~recs.list[r].hdr

C19_HeadlessMinidstSkipped ==
    \A r \in 1..drv.rec_no :
        Headless(r)
        => /\ \A i \in 1..Len(Rows(drv)) : Rows(drv)[i].rec # r
           /\ recs.list[r].fault = "none"
              => /\ drv.done_recs >= r
                 /\ (drv.done_recs = r /\ drv.err = "none") => pc = "loop"

\* a MINIDST record without a header was decoded and skipped, and the event
\* of the record after it was emitted
C19_Witness ==
    /\ Len(recs.list) = 2
    /\ Headless(1)
    /\ drv.done_recs = 2
    /\ Len(drv.all_phmtoc) = 1
    /\ drv.all_phmtoc[1].rec = 2
    /\ Len(drv.all_phpsum) = 2

(***************************************************************************)
(* C20: when the PHMTOC of the record main has come to has NMcPart # 0,    *)
(* the iteration raises the assertion error with the file right after the  *)
(* 20 bytes of MCHEAD, before any particle is read; the record gets no     *)
(* PHMTOC or particle row and the loop ends.                               *)
(***************************************************************************)
AfterMchead(r) ==
    RecStart(recs, r) + 8 + Len(HeadBytes(recs.list[r], r))
    + (IF recs.list[r].datrec = 1 THEN 8 ELSE 0) + 20

C20_McPartRejected ==
    (drv.rec_no = Len(recs.list) /\ Fault = "mcpart")
    => /\ drv.err = "AssertionError"
       /\ pc # "loop"
       /\ s.pos = AfterMchead(drv.rec_no)
       /\ \A i \in 1..Len(drv.all_phmtoc) : drv.all_phmtoc[i].rec # drv.rec_no
       /\ \A i \in 1..Len(drv.all_phpsum) : drv.all_phpsum[i].rec # drv.rec_no
       /\ drv.done_recs = drv.rec_no - 1

\* the record has an event header and particles, its data in a second
\* fragment, and an event was emitted before it
C20_Witness ==
    /\ pc = "after"
    /\ drv.rec_no = 2
    /\ Fault = "mcpart"
    /\ recs.list[2].hdr
    /\ recs.list[2].npart = 2
    /\ recs.list[2].datrec = 1
    /\ drv.err = "AssertionError"
    /\ s.pos = AfterMchead(2)
    /\ Len(drv.all_phmtoc) = 1


(***************************************************************************)
(* The scalar readers.                                                     *)
(***************************************************************************)
\* the bytes at the cursor before the last call
BytesRead(n) == FileRead(file, from, n)

WordRead == S32(BytesRead(4))

FloatRead == pc = "scalar" /\ op = "read_float" /\ s.err = "none"

\* bits 7-14 of the word
ExpField(w) == Bits(w, 7, 8)

\* sign<<31 | exp<<23 | mantissa23 as <<bits 16-31, bits 0-15>>, where
\* mantissa23 = (bits 0-6 of w)<<16 | (bits 16-31 of w)
Ieee(w, exp) == <<32768 * Bits(w, 15, 1) + 128 * exp + Bits(w, 0, 7), Bits(w, 16, 16)>>

\* C16 as stated: ieee_exp = (bits 7-14) - 128 + 127
C16_Original ==
    (FloatRead /\ WordRead # 0 /\ ExpField(WordRead) - 128 + 127 \in 1..254)
    => data = Ieee(WordRead, ExpField(WordRead) - 128 + 127)

\* C16: for every non-zero VAX word whose exponent field (bits 7-14) lies in
\* 2..255, read_float yields the bit pattern sign<<31 | ieee_exp<<23 |
\* mantissa23 with ieee_exp = (bits 7-14) - 129 + 127, and consumes 4 bytes
C16_Amended ==
    (FloatRead /\ WordRead # 0 /\ ExpField(WordRead) \in 2..255)
    => /\ data = Ieee(WordRead, ExpField(WordRead) - 129 + 127)
       /\ s.pos = from + 4

\* the word 0x00004080 read as 1.0 (0x3F800000), and a word with a full
\* mantissa and the largest exponent read as well
C16_Witness ==
    /\ FloatRead
    /\ \/ BytesRead(4) = <<128, 64, 0, 0>> /\ data = <<16256, 0>>
       \/ BytesRead(4) = <<255, 255, 255, 255>> /\ data = <<65279, 65535>>

\* C17: read_float returns zero for the zero word and for every word whose
\* re-biased exponent (bits 7-14) - 128 + 127 is <= 0
C17_Original ==
    (FloatRead /\ (WordRead = 0 \/ ExpField(WordRead) - 128 + 127 <= 0))
    => data = <<0, 0>>

DateRead == pc = "scalar" /\ op = "read_date"

TicksRead == ZOfS64(S64(BytesRead(8)))

\* m is the floor of t / 10000 less the offset: (m + offset) * 10000 <= t
\* < (m + offset) * 10000 + 10000
IsMillisOf(m, t) ==
    LET q == ZAdd(m, JAVA_EPOCH_OFFSET)
        rest == ZAdd(t, ZNeg(Z(q.neg, MagMulAdd(q.mag, TicksPerMilli, 0))))
    IN  /\ ~rest.neg
        /\ MagLeq(rest.mag, <<TicksPerMilli - 1, 0, 0, 0, 0, 0>>)

\* C18: read_date consumes 8 bytes as a signed tick count t and gives the
\* millisecond value t // 10000 - 3506716800730, for every t
C18_Original ==
    (DateRead /\ Len(BytesRead(8)) = 8)
    => /\ s.err = "none"
       /\ s.pos = from + 8
       /\ IsMillisOf(data, TicksRead)
       /\ BytesRead(8) = <<0, 0, 0, 0, 0, 0, 0, 0>>
          => data = ZNeg(JAVA_EPOCH_OFFSET)

(***************************************************************************)
(* The DataBuffer and the bank decoders.                                   *)
(***************************************************************************)
\* the n bytes of the buffer from offset o
At(o, n) == SubSeq(buffer.buffer, o + 1, o + n)

\* remaining() before the last call
RemainingBefore == buffer.size - from

AfterRead == pc.at = "client" /\ op = "read"

\* C15: read(n) with n > remaining() fails and leaves the cursor unchanged;
\* for 0 <= n <= remaining() it returns the n bytes at the cursor and
\* advances the cursor by n
C15_Original ==
    AfterRead
    => IF arg > RemainingBefore
       THEN data.err # "none" /\ buffer.offset = from
       ELSE data.err = "none" /\ data.val = At(from, arg) /\ buffer.offset = from + arg

AfterParse(banks) == pc.at = "parsed" /\ op \in banks

\* C13: parse(buffer, n) of a fixed-width bank with n >= 1 and remaining()
\* < n * record_size fails before reading, the cursor unchanged
C13_Original ==
    (AfterParse(FixedBanks) /\ arg >= 1 /\ RemainingBefore < arg * record_size(op))
    => data.err # "none" /\ buffer.offset = from

Tabulated(bank) ==
    CASE bank = "PHPSUM" -> 36
      [] bank = "PHCHRG" -> 206
      [] bank = "PHKLUS" -> 100
      [] bank = "PHKELID" -> 92
      [] bank = "PHKTRK" -> 4

Decoded(bank) ==
    CASE bank = "PHPSUM" -> 36
      [] bank = "PHCHRG" -> 240
      [] bank = "PHKLUS" -> 100
      [] bank = "PHKELID" -> 96
      [] bank = "PHKTRK" -> 4

SizedBanks == {"PHPSUM", "PHCHRG", "PHKLUS", "PHKELID", "PHKTRK"}

\* C14 as stated: the sizes of the table, 206 for PHCHRG and 92 for PHKELID
C14_Original ==
    (AfterParse(SizedBanks) /\ data.err = "none")
    => Len(data.val) = arg /\ buffer.offset = from + arg * Tabulated(op)

\* C14: a successful parse(buffer, n) of a fixed-width bank returns n records
\* and advances the cursor by n times the record size: 36 bytes for PHPSUM,
\* 240 for PHCHRG, 100 for PHKLUS, 96 for PHKELID and 4 for PHKTRK
C14_Amended ==
    (AfterParse(SizedBanks) /\ data.err = "none")
    => /\ Len(data.val) = arg
       /\ buffer.offset = from + arg * Decoded(op)
       /\ \A i \in 1..arg : data.val[i].id = S32(At(from + (i - 1) * Decoded(op), 4))

\* two PHCHRG records and two PHKELID records decoded from the start
C14_Witness ==
    /\ AfterParse({"PHCHRG", "PHKELID"})
    /\ recs.bank = op
    /\ arg = 2
    /\ from = 0
    /\ data.err = "none"
    /\ data.val = <<[id |-> 1001], [id |-> 1002]>>
    /\ buffer.offset \in {480, 192}

\* the lengths of the liquid and the gas block of a record with control word id
L(id) == IF Bits(id, 16, 1) = 1 THEN 36 ELSE 4
G(id) == IF Bits(id, 17, 1) = 1 THEN 36 ELSE 4

\* where record i of the last PHCRID parse starts, by the lengths of the
\* records decoded before it
RECURSIVE CridStart(_)
CridStart(i) ==
    IF i = 1 THEN from
    ELSE CridStart(i - 1) + 16 + L(data.val[i - 1].id) + G(data.val[i - 1].id)

\* rc is the first field of a short block and follows the five
\* log-likelihoods of a full one
RcAt(o, len) == S16(At(o + (IF len = 36 THEN 20 ELSE 0), 2))

\* C11: each parsed PHCRID record advances the cursor by 16 + L + G bytes,
\* L and G being 36 or 4 by bits 0x10000 and 0x20000 of its id; the liquid
\* block is read before the gas block; parse(buffer, n) consumes the sum of
\* these lengths over its n records (none for a count below 1)
C11_CridRecordLengths ==
    (AfterParse({"PHCRID"}) /\ data.err = "none")
    => /\ Len(data.val) = Max(arg, 0)
       /\ buffer.offset = CridStart(Len(data.val) + 1)
       /\ \A i \in 1..Len(data.val) :
            LET o == CridStart(i)
                r == data.val[i]
            IN  /\ r.id = S32(At(o, 4))
                /\ r.nhits = S16(At(o + 14, 2))
                /\ 16 + L(r.id) + G(r.id) \in {24, 56, 88}
                /\ r.liq_hyp.rc = RcAt(o + 16, L(r.id))
                /\ r.gas_hyp.rc = RcAt(o + 16 + L(r.id), G(r.id))
                /\ (r.liq_hyp.llik # None) = (L(r.id) = 36)
                /\ (r.gas_hyp.llik # None) = (G(r.id) = 36)

\* a record with a full liquid block, then one with a full gas block
C11_Witness ==
    /\ AfterParse({"PHCRID"})
    /\ recs.bank = "PHCRID"
    /\ arg = 2
    /\ from = 0
    /\ data.err = "none"
    /\ data.val[1].id = 65537
    /\ data.val[2].id = 131074
    /\ buffer.offset = 112
    /\ data.val[1].liq_hyp.rc = 1
    /\ data.val[2].gas_hyp.rc = 2
    /\ data.val[2].nhits = 2

\* component k of the log-likelihoods of the block at offset o
LlikAt(o, k) == from_vax32(At(o + 4 * (k - 1), 4))

\* C12: each of the five components of the combined llik is norm, plus the
\* liquid block's component iff bit 0x10000 of id is set, plus the gas block's
\* component iff bit 0x20000 is set
C12_CombinedLlik ==
    (AfterParse({"PHCRID"}) /\ data.err = "none")
    => \A i \in 1..Len(data.val) : \A k \in 1..5 :
          LET o == CridStart(i)
              id == data.val[i].id
              norm == from_vax32(At(o + 4, 4))
              liq == LlikAt(o + 16, k)
              gas == LlikAt(o + 16 + L(id), k)
          IN  data.val[i].llik[k] =
                 CASE L(id) = 36 /\ G(id) = 36 -> fadd(fadd(norm, liq), gas)
                   [] L(id) = 36 /\ G(id) = 4 -> fadd(norm, liq)
                   [] L(id) = 4 /\ G(id) = 36 -> fadd(norm, gas)
                   [] L(id) = 4 /\ G(id) = 4 -> norm

\* norm 97 with liquid 9..13 and gas -42..-50, then norm 94 alone
C12_Witness ==
    /\ AfterParse({"PHCRID"})
    /\ arg = 2
    /\ from = 0
    /\ data.err = "none"
    /\ data.val[1].id = 196609
    /\ data.val[1].llik = <<Float(64), Float(63), Float(62), Float(61), Float(60)>>
    /\ data.val[2].id = 2
    /\ data.val[2].llik = <<Float(94), Float(94), Float(94), Float(94), Float(94)>>

(***************************************************************************)
(* The converter's cursor inside a record.  After next_logical_record has  *)
(* returned, get_n_bytes is 8: the physical and logical header words.      *)
(***************************************************************************)
\* the iteration of the last record ended at the first offset check it came
\* to, or the record had no check to come to and the iteration ran through
EndedAtFirstCheck ==
    /\ drv.rec_no >= 1
    /\ drv.rec_no = Len(recs.list)
    /\ \/ drv.err = "ValueError: Inconsistent usroff"
       \/ drv.err = "ValueError: Inconsistent tocoff1" /\ ~recs.list[drv.rec_no].hdr
       \/ /\ drv.err = "none"
          /\ drv.done_recs = drv.rec_no
          /\ ~recs.list[drv.rec_no].hdr
          /\ ~recs.list[drv.rec_no].mini

\* C21 as stated: the record header is 124 bytes
C21_Original ==
    EndedAtFirstCheck => get_n_bytes(s) - 8 = 124

\* C21: parsing the record header consumes exactly 112 bytes after the
\* logical header (18 words and 5 strings of 8 bytes): on a record whose
\* header lies in one fragment the byte cursor advances by 112, from 8 to
\* 120, between next_logical_record returning and the first usroff or
\* tocoff1 check, and the file by as much.
C21_Amended ==
    EndedAtFirstCheck
    => /\ get_n_bytes(s) - 8 = 112
       /\ s.pos = RecStart(recs, drv.rec_no) + 8 + 112

\* the second record of a file failed its usroff check
C21_Witness ==
    /\ pc = "after"
    /\ drv.rec_no = 2
    /\ drv.err = "ValueError: Inconsistent usroff"
    /\ get_n_bytes(s) = 120

(***************************************************************************)
(* The byte cursor and the physical headers.  s.hdrs holds the file offset *)
(* of every physical header read so far; the payload of the fragment the   *)
(* reader is in begins 8 bytes after the last of them.                     *)
(***************************************************************************)
LastHeader(st) == st.hdrs[Len(st.hdrs)]
PayloadConsumed(st) == st.pos - (LastHeader(st) + 8)

\* a call that returned without reading a header moved the cursor up by the
\* number of bytes it returned
GrowsByBytesReturned ==
    (s'.err = "none" /\ s'.hdrs = s.hdrs)
    => /\ get_n_bytes(s') >= get_n_bytes(s)
       /\ get_n_bytes(s') = get_n_bytes(s) + Len(data')

\* C22 as stated: after a header was read, by next_physical_record or by
\* the rollover of read, the cursor counts payload bytes only
C22_Original ==
    [][ /\ GrowsByBytesReturned
        /\ (s'.err = "none" /\ s'.hdrs # s.hdrs)
           => get_n_bytes(s') = PayloadConsumed(s') ]_vars

\* C22: between two consecutive physical-header reads the byte cursor never
\* decreases and grows by exactly the number of payload bytes returned by
\* read; every header read, in a next_physical_record called explicitly or
\* by the rollover inside read, resets the cursor so that it counts the 8
\* bytes of that header and the payload bytes consumed since it was read.
C22_Amended ==
    [][ /\ GrowsByBytesReturned
        /\ (s'.err = "none" /\ s'.hdrs # s.hdrs)
           => get_n_bytes(s') = 8 + PayloadConsumed(s') ]_vars

\* a read of four bytes rolled over into the next fragment with two of them
C22_Witness ==
    /\ op = "read"
    /\ s.err = "none"
    /\ Len(data) = 4
    /\ LastHeader(s) = from + 2
    /\ PayloadConsumed(s) = 2
    /\ get_n_bytes(s) = 10

(***************************************************************************)
(* C23: whenever next_logical_record returns normally, the headers it has  *)
(* consumed are those of every unread fragment of the logical record that  *)
(* was current at the call (continuation fragments, each but the last      *)
(* continued in turn, one after the other in the file) and exactly one     *)
(* further header, whose 'is continuation' bit is clear; the reader stands *)
(* right after that header, whatever had been read of the previous record. *)
(***************************************************************************)
LenAt(h) == file[h + 1] + 256 * file[h + 2]

\* the headers consumed by the step are numbered a+1 .. b
SkippedToNextRecord(a, b) ==
    /\ b > a
    /\ \A k \in (a + 1)..(b - 1) :
          /\ ContinuedBit(FlagsAt(s'.hdrs[k]))
          /\ ContinuesBit(FlagsAt(s'.hdrs[k])) <=> k < b - 1
    /\ (b - a > 1) <=> s.to_be_continued
    /\ ~ContinuedBit(FlagsAt(s'.hdrs[b]))
    /\ s'.hdrs[a + 1] = s.pos + Max(s.reclen - get_n_bytes(s), 0)
    /\ \A k \in (a + 1)..(b - 1) :
          s'.hdrs[k + 1] = s'.hdrs[k] + Max(LenAt(s'.hdrs[k]), 8)
    /\ s'.pos = s'.hdrs[b] + 8
    /\ get_n_bytes(s') = 8
    /\ s'.to_be_continued = ContinuesBit(FlagsAt(s'.hdrs[b]))

C23_NextLogicalRecordSkips ==
    [][ (op' = "next_logical_record" /\ s'.err = "none")
        => SkippedToNextRecord(Len(s.hdrs), Len(s'.hdrs)) ]_vars

\* after a read inside the first fragment of a record, the call skipped two
\* further fragments of it and stands on the record after it
C23_Witness ==
    /\ op = "next_logical_record"
    /\ preop = "read"
    /\ s.err = "none"
    /\ Cardinality({k \in 1..Len(s.hdrs) : s.hdrs[k] >= from}) = 3
    /\ ~ContinuedBit(FlagsAt(LastHeader(s)))

(***************************************************************************)
(* C24: the event header of a record named IJEVHD is parsed only if the    *)
(* byte count right after the record header equals the usroff the header   *)
(* names; when it differs the iteration raises the usroff mismatch with    *)
(* the file where the record header ended, before any byte of the event    *)
(* header is read, no event header is held and the record has no row.      *)
(***************************************************************************)
C24_UsroffMismatchFails ==
    /\ (drv.rec_no = Len(recs.list) /\ Fault = "usroff")
       => /\ drv.err = "ValueError: Inconsistent usroff"
          /\ pc # "loop"
          /\ s.pos = RecStart(recs, drv.rec_no) + 8 + 112
          /\ get_n_bytes(s) # UsroffOf(recs.list[drv.rec_no]) + 4
          /\ drv.event_info = None
          /\ drv.done_recs = drv.rec_no - 1
          /\ \A i \in 1..Len(Rows(drv)) : Rows(drv)[i].rec # drv.rec_no
    /\ \A i \in 1..Len(drv.all_records) :
          /\ recs.list[drv.all_records[i].rec].hdr
          /\ recs.list[drv.all_records[i].rec].fault # "usroff"
          /\ drv.all_records[i].event = EventBase + drv.all_records[i].rec

\* the second record of a file fails so, after the event of the first
\* record was emitted
C24_Witness ==
    /\ pc = "after"
    /\ drv.rec_no = 2
    /\ Fault = "usroff"
    /\ drv.err = "ValueError: Inconsistent usroff"
    /\ drv.event_info = None
    /\ Len(drv.all_records) = 1
    /\ Len(drv.all_phmtoc) = 1

(***************************************************************************)
(* C25: in a record of format MINIDST, after the 72 bytes of PHMTOC, one   *)
(* physical header is read if the datrec of the record header is positive  *)
(* and none otherwise; the byte count is compared against datoff after     *)
(* that, and when it differs the iteration raises the datoff mismatch with *)
(* the file where PHMTOC (or the header just read) ended: nothing of       *)
(* MCHEAD or of a bank is read, and the record has no PHMTOC or particle   *)
(* row.                                                                    *)
(***************************************************************************)
\* the file offset at which PHMTOC of record r ends
AfterPhmtoc(r) == RecStart(recs, r) + 8 + Len(HeadBytes(recs.list[r], r))

\* the last physical header read is the one record r begins with; the one
\* right after its PHMTOC
InFirstFragment(r) == LastHeader(s) = RecStart(recs, r)
InDataFragment(r) == LastHeader(s) = AfterPhmtoc(r)

C25_DatoffCheckedAfterAdvance ==
    LET r == drv.rec_no
    IN /\ (r >= 1 /\ r = Len(recs.list) /\ Fault = "datoff")
          => /\ drv.err = "ValueError: Inconsistent datoff"
             /\ pc # "loop"
             /\ IF DatrecOf(recs.list[r]) > 0
                THEN InDataFragment(r) /\ s.pos = AfterPhmtoc(r) + 8
                                       /\ get_n_bytes(s) = 8
                ELSE InFirstFragment(r) /\ s.pos = AfterPhmtoc(r)
                                        /\ get_n_bytes(s) = Tocoff1Of(recs.list[r]) + 72
             /\ \A i \in 1..Len(drv.all_phmtoc) : drv.all_phmtoc[i].rec # r
             /\ \A i \in 1..Len(drv.all_phpsum) : drv.all_phpsum[i].rec # r
             /\ drv.done_recs = r - 1
       /\ (r >= 1 /\ drv.done_recs = r /\ drv.err = "none" /\ recs.list[r].mini)
          => IF DatrecOf(recs.list[r]) > 0
             THEN InDataFragment(r) /\ s.pos - (AfterPhmtoc(r) + 8) = get_n_bytes(s) - 8
             ELSE InFirstFragment(r) /\ s.pos - RecStart(recs, r) = get_n_bytes(s)

\* the mismatch was found in the second fragment of the second record, after
\* its event header was parsed
C25_Witness ==
    /\ pc = "after"
    /\ drv.rec_no = 2
    /\ Fault = "datoff"
    /\ recs.list[2].hdr
    /\ recs.list[2].datrec = 1
    /\ drv.err = "ValueError: Inconsistent datoff"
    /\ InDataFragment(2)
    /\ Len(drv.all_records) = 2
    /\ Len(drv.all_phmtoc) = 1

(***************************************************************************)
(* A record that is neither named IJEVHD nor of format MINIDST.            *)
(***************************************************************************)
Other(r) ==
    /\ r \in 1..Len(recs.list)
    /\ ~recs.list[r].hdr
    /\ ~recs.list[r].mini

RecordHeaderWhole(r) == RecStart(recs, r) + 8 + 112 <= Len(file)

\* the iteration that counted record r read its record header and no more,
\* and left the rows alone
SkippedOther(r) ==
    /\ drv'.err = "none"
    /\ drv'.done_recs = r
    /\ pc' = "loop"
    /\ s'.pos = RecStart(recs, r) + 8 + 112
    /\ LastHeader(s') = RecStart(recs, r)
    /\ drv'.all_records = drv.all_records
    /\ drv'.all_phmtoc = drv.all_phmtoc
    /\ drv'.all_phpsum = drv.all_phpsum

\* the iteration after the one of record r began with the first fragment of
\* record r + 1: the header read after those of the fragments of r
LandedAfter(r) ==
    /\ Len(s'.hdrs) > Len(s.hdrs) + recs.list[r].datrec
    /\ s'.hdrs[Len(s.hdrs) + recs.list[r].datrec + 1] = RecStart(recs, r + 1)
    /\ recs.list[r].datrec = 1 => s'.hdrs[Len(s.hdrs) + 1] >= s.pos

\* C26 as stated: the event state is as it was before the record
C26_Original ==
    [][ (drv'.rec_no = drv.rec_no + 1 /\ Other(drv'.rec_no)
         /\ RecordHeaderWhole(drv'.rec_no))
        => (SkippedOther(drv'.rec_no) /\ drv'.event_info = drv.event_info) ]_vars

\* C26: a logical record whose usrnam is not IJEVHD and whose format is not
\* MINIDST is counted, nothing of it beyond the record header is read, and
\* no row is added; the event header held from the record before it, if
\* any, is dropped, as it is at every record.  The following
\* next_logical_record lands on the first fragment of the next logical
\* record even when the skipped record spans several physical fragments.
C26_Amended ==
    [][ /\ (drv'.rec_no = drv.rec_no + 1 /\ Other(drv'.rec_no)
            /\ RecordHeaderWhole(drv'.rec_no))
           => (SkippedOther(drv'.rec_no) /\ drv'.event_info = None)
        /\ (drv'.rec_no = drv.rec_no + 1 /\ Other(drv.rec_no))
           => LandedAfter(drv.rec_no) ]_vars

\* a record of two fragments was skipped, and the event of the record after
\* it was emitted with its own particles
C26_Witness ==
    /\ Other(1)
    /\ recs.list[1].datrec = 1
    /\ drv.done_recs = 2
    /\ Len(drv.all_records) = 1
    /\ drv.all_records[1].event = EventBase + 2
    /\ Len(drv.all_phpsum) = 2
    /\ drv.all_phpsum[1].id = ParticleId(2, 1)

(***************************************************************************)
(* C27: read never returns bytes of a logical record other than the one    *)
(* current when it was called: a read that consumed the header of a first  *)
(* fragment (its 'is continuation' bit clear), having exhausted the last   *)
(* fragment of the current record, failed and returned nothing.            *)
(***************************************************************************)
\* the headers the last operation consumed
ConsumedByLastCall == {k \in 1..Len(s.hdrs) : s.hdrs[k] >= from}

C27_Original ==
    op = "read"
    => \A k \in ConsumedByLastCall :
          (HeaderWhole(s.hdrs[k]) /\ ~ContinuedBit(FlagsAt(s.hdrs[k])))
          => (s.err # "none" /\ data = <<>>)

(***************************************************************************)
(* C28: on any finite input every call to read(n), next_physical_record    *)
(* and next_logical_record terminates by returning or raising: a program   *)
(* inside the loop of read or of next_logical_record comes back to its     *)
(* caller.  The loop of read gets across fragments without payload (it     *)
(* reads the next header) and ends at a fragment whose record length is    *)
(* smaller than the header bytes counted (the read raises).                *)
(***************************************************************************)
\* the turns taken one at a step give what the operation gives as a whole
TurnsAgree ==
    (pc.at = "client" /\ op \in {"read", "next_logical_record"})
    => LET r == IF op = "read" THEN read(file, buffer, arg)
                ELSE next_logical_record(file, buffer)
       IN s = r.st /\ data = r.val

C28_CallsTerminate == (pc.at # "client") ~> (pc.at = "client")

\* a read came back with its bytes after it went across a fragment without
\* payload
C28_Witness ==
    /\ pc.at = "client"
    /\ op = "read"
    /\ s.err = "none"
    /\ Len(data) = arg
    /\ \E k \in ConsumedByLastCall :
          /\ k < Len(s.hdrs)
          /\ LenAt(s.hdrs[k]) = 8

(***************************************************************************)
(* C29: after any sequence of DataBuffer reads and skips and of parses of  *)
(* the bank decoders on the buffer, PHMTOC and the calls that fail among   *)
(* them, the cursor is within the buffer: 0 <= offset <= size, and         *)
(* remaining() is not negative.                                            *)
(***************************************************************************)
C29_Original ==
    /\ 0 <= buffer.offset
    /\ buffer.offset <= buffer.size
    /\ remaining(buffer) >= 0

(***************************************************************************)
(* C30: parse(buffer, n) with n < 0 fails with an error for every bank     *)
(* decoder, returns no records and does not move the cursor backward.      *)
(***************************************************************************)
C30_Original ==
    (AfterParse(FixedBanks \cup {"PHCRID"}) /\ arg < 0)
    => /\ data.err # "none"
       /\ data.val = None
       /\ buffer.offset >= from


\* the same for the converter: the event of a record whose PHMTOC names a
\* negative NPhPSum is not emitted (main runs range(NPhPSum), which is empty,
\* and the event is emitted without particles)
NegativeNPhPSumFails ==
    \A i \in 1..Len(drv.all_phmtoc) : drv.all_phmtoc[i].NPhPSum >= 0

=============================================================================
